---- MODULE Spec2Model ----
(***************************************************************************)
(* Matching core of connect-discover-back: the global queue                *)
(* (socket/handlers/matchHandler.ts) and the geo queue                     *)
(* (socket/handlers/localMatchHandler.ts), their active-match registries,  *)
(* and the stores the searches consult.                                    *)
(*                                                                         *)
(* Every socket event handler is an async function.  A handler runs        *)
(* without interruption up to its next store or cache call (query,         *)
(* setRedis, deleteRedis); while that call is pending any other handler    *)
(* may run.  A handler invocation in flight is a record of the bag `tasks`,*)
(* its field pc naming the call it is suspended at; one action of the      *)
(* model is the piece of code between two such calls.  fetchSockets() and  *)
(* the emits resolve without I/O and are part of the piece they stand in.  *)
(* The cache is only ever written by these handlers, so its contents are   *)
(* not part of the state; the calls remain as suspension points.           *)
(***************************************************************************)
EXTENDS Integers, Sequences, FiniteSets, Bags, TLC

\* ------------------------------------------------------------------ bounds
NumUsers == 3
MaxTasks == 3
MaxEvents == 3
RematchEvents == 5

Users == 1..NumUsers
None == 0

\* ------------------------------------------------- stored profile attributes
\* users.gender and users.age of the rows the profile queries return.
Gender(u) == IF u % 2 = 1 THEN "female" ELSE "male"
Age(u) == 18 + 4 * u

\* preferences a client may send with match:start_searching
GlobalPrefs ==
  { [mode |-> "chat",  genderPreference |-> "all",    ageRange |-> <<18, 99>>],
    [mode |-> "chat",  genderPreference |-> "female", ageRange |-> <<22, 26>>],
    [mode |-> "video", genderPreference |-> "all",    ageRange |-> <<18, 99>>] }

\* preferences a client may send with local_match:start_searching
LocalPrefs ==
  { [mode |-> "chat",  maxDistance |-> 5, genderPreference |-> "all",
     ageRange |-> <<18, 99>>],
    [mode |-> "chat",  maxDistance |-> 3, genderPreference |-> "all",
     ageRange |-> <<18, 99>>],
    [mode |-> "video", maxDistance |-> 5, genderPreference |-> "female",
     ageRange |-> <<22, 26>>] }

\* latitudes a client may share, in kilometres north of a reference point on
\* one meridian (longitude 0)
Latitudes == {0, 2, 4}
NoLocation == [latitude |-> -1, longitude |-> -1]
InitialLocation(u) ==
  IF u = 1 THEN [latitude |-> 0, longitude |-> 0]
  ELSE IF u = 2 THEN [latitude |-> 4, longitude |-> 0]
  ELSE NoLocation

VARIABLES
  matchingQueue,       \* matchHandler.ts: QueuedUser[]
  activeMatches,       \* matchHandler.ts: Map userId -> partnerId
  localMatchingQueue,  \* localMatchHandler.ts: QueuedLocalUser[]
  activeLocalMatches,  \* localMatchHandler.ts: Map userId -> partnerId
  tasks,               \* bag of handler invocations suspended at a store/cache call
  connected,           \* connected[u]: u has a live socket
  socketId,            \* socketId[u]: id of u's latest socket
  deleted,             \* users whose row has deleted_at set
  blocks,              \* rows of user_blocks: <<user_id, blocked_user_id>>
  locations,           \* rows of locations: user -> coordinates
  conversations,       \* rows of conversations, in insertion order; id = index
  emitted,             \* events emitted by the latest step
  budget,              \* events the environment may still deliver
  rooms,               \* rooms[u]: the rooms u's live socket has joined
  relayed,             \* <<event, room>> of the signaling events forwarded so far
  found,               \* match-found events delivered to live sockets, in order
  second,              \* second[u]: u has a second live socket (another tab)
  status,              \* the cache's `user:${u}:status`
  offlineTimers,       \* offlineTimers[u]: pending grace timers of u's disconnects
  statusTasks,         \* bag of statusHandler invocations suspended at a call
  typingTimeouts,      \* the armed typing timers of all sockets, oldest first
  nearbySubscription,  \* locationHandler: the connection's subscribed radius, or null
  updateInterval,      \* locationHandler: the connection's interval handle, or null
  intervals            \* armed nearby-users intervals: <<user, socket, handle>>

vars == <<matchingQueue, activeMatches, localMatchingQueue, activeLocalMatches,
          tasks, connected, socketId, deleted, blocks, locations,
          conversations, emitted, budget, rooms, relayed, found, second,
          status, offlineTimers, statusTasks, typingTimeouts,
          nearbySubscription, updateInterval, intervals>>

globalState == <<matchingQueue, activeMatches>>
localState == <<localMatchingQueue, activeLocalMatches>>
storeState == <<deleted, blocks, locations>>
socketState == <<connected, socketId, second>>
presenceState == <<status, offlineTimers, statusTasks>>
nearbyState == <<nearbySubscription, updateInterval, intervals>>

\* ----------------------------------------------------------------- helpers
EmptyMap == [u \in Users |-> None]
\* Map.has / Map.delete / Map.set on a userId -> partnerId map; a key that is
\* no user id (a client may send any string) is not in the map
MapHas(m, k) == k \in Users /\ m[k] # None
MapDelete(m, k) == IF k \in Users THEN [m EXCEPT ![k] = None] ELSE m
MapSet(m, k, v) == [m EXCEPT ![k] = v]

\* Array.prototype.some(q => q.userId === u)
InQueue(q, u) == \E i \in 1..Len(q) : q[i].userId = u
\* Array.prototype.findIndex(q => q.userId === u), 0-based, -1 when absent
FindIndex(q, u) ==
  IF InQueue(q, u)
  THEN (CHOOSE i \in 1..Len(q) :
          q[i].userId = u /\ \A j \in 1..(i - 1) : q[j].userId # u) - 1
  ELSE -1
\* an event emitted to socket `sock` of user `to`
\* (message: the payload's message where the model tells messages apart;
\* arg: its queuePosition or conversationId, 0 when it has none)
Msg(to, sock, ev, message, arg) ==
  [to |-> to, sock |-> sock, ev |-> ev, message |-> message, arg |-> arg]
\* io.in(`user:${u}`).fetchSockets(): the live sockets of u; [0] receives
PartnerSockets(u, ev, message, arg) ==
  IF connected[u] THEN {Msg(u, socketId[u], ev, message, arg)} ELSE {}

\* socket.rooms: a room name is a prefix and an id.  Every socket joins
\* `user:${userId}` on connection; a match joins the room named by the bare
\* conversation id, join_chat the room `conversation:${conversationId}`.
UserRoom(u) == <<"user:", u>>
MatchRoom(conversationId) == <<"", conversationId>>
ChatRoom(conversationId) == <<"conversation:", conversationId>>
Join(rm, u, room) == [rm EXCEPT ![u] = @ \cup {room}]
\* the socket `sock` of u is still the connected one
Live(u, sock) == connected[u] /\ socketId[u] = sock
\* the match-found events of a step that reach a live socket: the searcher's
\* first, then the partner's
FoundLog(searcher, partner) ==
  SelectSeq(<<searcher>> \o partner,
            LAMBDA m : Live(m.to, m.sock))

NoTask == EmptyBag
Spawn(t) == tasks' = tasks (+) SetToBag({t})
Resume(t, t2) == tasks' = (tasks (-) SetToBag({t})) (+) SetToBag({t2})
Finish(t) == tasks' = tasks (-) SetToBag({t})
InFlight == BagToSet(tasks)
CanSpawn(n) == BagCardinality(tasks) + n <= MaxTasks
Deliver == budget > 0 /\ budget' = budget - 1

\* a handler invocation: the closure's userId and socket, the event's
\* argument, and the locals that live across a suspension
Task(kind, u, pc, preferences) ==
  [kind |-> kind, userId |-> u, socket |-> socketId[u], pc |-> pc,
   preferences |-> preferences, latitude |-> 0, longitude |-> 0,
   compatibleUsers |-> <<>>, conversationId |-> None]
NoPrefs == [mode |-> "none"]

\* rows of an active conversation between a and b, in either column order
ConversationRows(a, b) ==
  {i \in 1..Len(conversations) :
     \/ conversations[i].user_1_id = a /\ conversations[i].user_2_id = b
     \/ conversations[i].user_1_id = b /\ conversations[i].user_2_id = a}
\* (mutant) only the rows of the searcher's own blocks are selected
BlockRowsOneWay(a, b) == {r \in blocks : r = <<a, b>>}

\* SELECT id FROM user_blocks WHERE (a blocked b) OR (b blocked a)
BlockRows(a, b) == {r \in blocks : r = <<a, b>> \/ r = <<b, a>>}

\* ======================================================================
\* matchHandler.ts: the global queue
\* ======================================================================
removeFromQueue(q, targetUserId) ==
  LET index == FindIndex(q, targetUserId)
  IN  IF index # -1
      THEN SubSeq(q, 1, index) \o SubSeq(q, index + 2, Len(q))
      ELSE q

\* (mutant) the filter keeps the searcher's own entry
CompatibleUsersWithSelf(q, reg, searchingUserId, preferences) ==
  SelectSeq(q, LAMBDA queued :
    /\ ~MapHas(reg, queued.userId)
    /\ queued.preferences.mode = preferences.mode)

\* findMatch: the filter that builds compatibleUsers
CompatibleUsers(q, reg, searchingUserId, preferences) ==
  SelectSeq(q, LAMBDA queued :
    /\ queued.userId # searchingUserId
    /\ ~MapHas(reg, queued.userId)
    /\ queued.preferences.mode = preferences.mode)

\* (mutant) only the searcher's preferences are checked
SearcherPreferencesOnly(preferences, searchingUserId, matchedQueued) ==
  LET m == matchedQueued.userId
  IN  /\ preferences.genderPreference = "all"
         \/ preferences.genderPreference = Gender(m)
      /\ ~(Age(m) < preferences.ageRange[1] \/ Age(m) > preferences.ageRange[2])

\* findMatch: gender preference and age range, both directions
GenderAgeCompatible(preferences, searchingUserId, matchedQueued) ==
  LET m == matchedQueued.userId
      p == matchedQueued.preferences
  IN  /\ preferences.genderPreference = "all"
         \/ preferences.genderPreference = Gender(m)
      /\ p.genderPreference = "all"
         \/ p.genderPreference = Gender(searchingUserId)
      /\ ~(Age(m) < preferences.ageRange[1] \/ Age(m) > preferences.ageRange[2])
      /\ ~(Age(searchingUserId) < p.ageRange[1]
           \/ Age(searchingUserId) > p.ageRange[2])

\* match:start_searching, up to the profile query
StartSearching(u, preferences) ==
  /\ connected[u]
  /\ Deliver
  /\ IF InQueue(matchingQueue, u)
     THEN /\ emitted' = {Msg(u, socketId[u], "match:searching",
                             "Already searching...",
                             FindIndex(matchingQueue, u) + 1)}
          /\ UNCHANGED tasks
     ELSE IF MapHas(activeMatches, u)
     THEN /\ emitted' = {Msg(u, socketId[u], "error",
                             "You already have an active match", 0)}
          /\ UNCHANGED tasks
     ELSE /\ CanSpawn(1)
          /\ Spawn(Task("match:start_searching", u, "profile", preferences))
          /\ emitted' = {}
  /\ UNCHANGED <<globalState, localState, storeState, socketState,
                 conversations, rooms, relayed, found,
                 presenceState, typingTimeouts, nearbyState>>

\* match:start_searching, from the profile row to the cache write
QueueUser(t) ==
  /\ t.kind = "match:start_searching" /\ t.pc = "profile"
  /\ IF t.userId \in deleted
     THEN /\ emitted' = {Msg(t.userId, t.socket, "error", "User not found", 0)}
          /\ Finish(t)
          /\ UNCHANGED matchingQueue
     ELSE /\ matchingQueue' = Append(matchingQueue,
               [userId |-> t.userId, socketId |-> t.socket,
                preferences |-> t.preferences])
          /\ Resume(t, [t EXCEPT !.pc = "cache"])
          /\ emitted' = {}
  /\ UNCHANGED <<activeMatches, localState, storeState, socketState,
                 conversations, budget, rooms, relayed, found,
                 presenceState, typingTimeouts, nearbyState>>

\* findMatch: `continue`, the loop moves to the next candidate or ends
NextCandidate(t, rest) ==
  IF rest = <<>> THEN Finish(t)
  ELSE Resume(t, [t EXCEPT !.compatibleUsers = rest, !.pc = "candidate"])

\* match:start_searching after the cache write: the ack, then findMatch up to
\* the first candidate's profile query
FindMatch(t) ==
  /\ t.kind = "match:start_searching" /\ t.pc = "cache"
  /\ emitted' = {Msg(t.userId, t.socket, "match:searching",
                      "Searching for match...", Len(matchingQueue))}
  /\ NextCandidate(t, CompatibleUsers(matchingQueue, activeMatches,
                                      t.userId, t.preferences))
  /\ UNCHANGED <<globalState, localState, storeState, socketState,
                 conversations, budget, rooms, relayed, found,
                 presenceState, typingTimeouts, nearbyState>>

\* (mutant) a candidate whose profile is gone is passed over, its entry kept
CheckCandidateKeeps(t) ==
  /\ t.kind = "match:start_searching" /\ t.pc = "candidate"
  /\ LET matchedQueued == Head(t.compatibleUsers)
         rest == Tail(t.compatibleUsers)
     IN  IF matchedQueued.userId \in deleted
            \/ ~GenderAgeCompatible(t.preferences, t.userId, matchedQueued)
         THEN NextCandidate(t, rest)
         ELSE Resume(t, [t EXCEPT !.pc = "block"])
  /\ emitted' = {}
  /\ UNCHANGED <<globalState, localState, storeState, socketState,
                 conversations, budget, rooms, relayed, found,
                 presenceState, typingTimeouts, nearbyState>>

\* findMatch: a candidate's profile row arrives
CheckCandidate(t) ==
  /\ t.kind = "match:start_searching" /\ t.pc = "candidate"
  /\ LET matchedQueued == Head(t.compatibleUsers)
         rest == Tail(t.compatibleUsers)
     IN  IF matchedQueued.userId \in deleted
         THEN /\ matchingQueue' = removeFromQueue(matchingQueue, matchedQueued.userId)
              /\ NextCandidate(t, rest)
         ELSE IF ~GenderAgeCompatible(t.preferences, t.userId, matchedQueued)
         THEN /\ NextCandidate(t, rest)
              /\ UNCHANGED matchingQueue
         ELSE /\ Resume(t, [t EXCEPT !.pc = "block"])
              /\ UNCHANGED matchingQueue
  /\ emitted' = {}
  /\ UNCHANGED <<activeMatches, localState, storeState, socketState,
                 conversations, budget, rooms, relayed, found,
                 presenceState, typingTimeouts, nearbyState>>

\* (mutant) the candidate's entry of the pair is written in a later step
StoreMatchHalf(t) ==
  /\ t.kind = "match:start_searching" /\ t.pc = "block"
  /\ LET matchedQueued == Head(t.compatibleUsers)
         rest == Tail(t.compatibleUsers)
     IN  IF BlockRows(t.userId, matchedQueued.userId) # {}
         THEN /\ NextCandidate(t, rest)
              /\ UNCHANGED globalState
         ELSE /\ matchingQueue' =
                   removeFromQueue(removeFromQueue(matchingQueue, t.userId),
                                   matchedQueued.userId)
              /\ activeMatches' =
                   MapSet(activeMatches, t.userId, matchedQueued.userId)
              /\ Resume(t, [t EXCEPT !.pc = "conversation"])
  /\ emitted' = {}
  /\ UNCHANGED <<localState, storeState, socketState, conversations, budget,
                 rooms, relayed, found,
                 presenceState, typingTimeouts, nearbyState>>

\* findMatch: the block rows arrive; on none, both leave the queue and the
\* pair is stored
StoreMatch(t) ==
  /\ t.kind = "match:start_searching" /\ t.pc = "block"
  /\ LET matchedQueued == Head(t.compatibleUsers)
         rest == Tail(t.compatibleUsers)
     IN  IF BlockRows(t.userId, matchedQueued.userId) # {}
         THEN /\ NextCandidate(t, rest)
              /\ UNCHANGED globalState
         ELSE /\ matchingQueue' =
                   removeFromQueue(removeFromQueue(matchingQueue, t.userId),
                                   matchedQueued.userId)
              /\ activeMatches' =
                   MapSet(MapSet(activeMatches, t.userId, matchedQueued.userId),
                          matchedQueued.userId, t.userId)
              /\ Resume(t, [t EXCEPT !.pc = "conversation"])
  /\ emitted' = {}
  /\ UNCHANGED <<localState, storeState, socketState, conversations, budget,
                 rooms, relayed, found,
                 presenceState, typingTimeouts, nearbyState>>

\* findMatch: the conversation rows arrive; reuse one or insert
FindConversation(t) ==
  /\ t.kind = "match:start_searching" /\ t.pc = "conversation"
  /\ LET rows == ConversationRows(t.userId, Head(t.compatibleUsers).userId)
     IN  IF rows # {}
         THEN \E id \in rows :
                Resume(t, [t EXCEPT !.conversationId = id, !.pc = "matchcache"])
         ELSE Resume(t, [t EXCEPT !.pc = "insert"])
  /\ emitted' = {}
  /\ UNCHANGED <<globalState, localState, storeState, socketState,
                 conversations, budget, rooms, relayed, found,
                 presenceState, typingTimeouts, nearbyState>>

\* findMatch: the INSERT returns the new conversation's id
InsertConversation(t) ==
  /\ t.kind = "match:start_searching" /\ t.pc = "insert"
  /\ conversations' = Append(conversations,
        [user_1_id |-> t.userId,
         user_2_id |-> Head(t.compatibleUsers).userId,
         chat_mode |-> t.preferences.mode])
  /\ Resume(t, [t EXCEPT !.conversationId = Len(conversations) + 1,
                         !.pc = "matchcache"])
  /\ emitted' = {}
  /\ UNCHANGED <<globalState, localState, storeState, socketState, budget,
                 rooms, relayed, found,
                 presenceState, typingTimeouts, nearbyState>>

\* findMatch after the match's cache write: match:found to both sides
AnnounceMatch(t) ==
  /\ t.kind = "match:start_searching" /\ t.pc = "matchcache"
  /\ LET partnerId == Head(t.compatibleUsers).userId
         room == MatchRoom(t.conversationId)
         joined == IF Live(t.userId, t.socket)
                   THEN Join(rooms, t.userId, room) ELSE rooms
         toSearcher == Msg(t.userId, t.socket, "match:found", "", t.conversationId)
         toPartner == IF connected[partnerId]
                      THEN <<Msg(partnerId, socketId[partnerId], "match:found",
                                 "", t.conversationId)>>
                      ELSE <<>>
     IN  /\ rooms' = IF connected[partnerId]
                     THEN Join(joined, partnerId, room) ELSE joined
         /\ emitted' = {toSearcher}
              \cup PartnerSockets(partnerId, "match:found", "", t.conversationId)
         /\ found' = found \o FoundLog(toSearcher, toPartner)
  /\ Finish(t)
  /\ UNCHANGED <<globalState, localState, storeState, socketState,
                 conversations, budget, relayed,
                 presenceState, typingTimeouts, nearbyState>>

\* match:stop_searching, up to the cache delete
StopSearching(u) ==
  /\ connected[u]
  /\ Deliver
  /\ CanSpawn(1)
  /\ matchingQueue' = removeFromQueue(matchingQueue, u)
  /\ Spawn(Task("match:stop_searching", u, "cache", NoPrefs))
  /\ emitted' = {}
  /\ UNCHANGED <<activeMatches, localState, storeState, socketState,
                 conversations, rooms, relayed, found,
                 presenceState, typingTimeouts, nearbyState>>

\* match:stop_searching after the cache delete
Stopped(t) ==
  /\ t.kind = "match:stop_searching" /\ t.pc = "cache"
  /\ emitted' = {Msg(t.userId, t.socket, "match:stopped", "", 0)}
  /\ Finish(t)
  /\ UNCHANGED <<globalState, localState, storeState, socketState,
                 conversations, budget, rooms, relayed, found,
                 presenceState, typingTimeouts, nearbyState>>

\* match:skip with the partner id the client sends
SkipMatch(u, partnerId) ==
  /\ connected[u]
  /\ Deliver
  /\ activeMatches' = MapDelete(MapDelete(activeMatches, u), partnerId)
  /\ emitted' =
       (IF partnerId \in Users
        THEN PartnerSockets(partnerId, "match:partner_skipped", "", 0) ELSE {})
       \cup {Msg(u, socketId[u], "match:skipped", "", 0)}
  /\ UNCHANGED <<matchingQueue, localState, tasks, storeState, socketState,
                 conversations, rooms, relayed, found,
                 presenceState, typingTimeouts, nearbyState>>

\* match:decline, up to the cache delete
DeclineMatch(u) ==
  /\ connected[u]
  /\ Deliver
  /\ LET partnerId == activeMatches[u]
     IN  IF partnerId = None
         THEN UNCHANGED <<activeMatches, tasks>>
         ELSE /\ CanSpawn(1)
              /\ activeMatches' = MapDelete(MapDelete(activeMatches, u), partnerId)
              /\ Spawn([Task("match:decline", u, "cache", NoPrefs)
                          EXCEPT !.compatibleUsers = <<[userId |-> partnerId]>>])
  /\ emitted' = {}
  /\ UNCHANGED <<matchingQueue, localState, storeState, socketState,
                 conversations, rooms, relayed, found,
                 presenceState, typingTimeouts, nearbyState>>

\* match:decline after the cache delete
Declined(t) ==
  /\ t.kind = "match:decline" /\ t.pc = "cache"
  /\ emitted' = PartnerSockets(Head(t.compatibleUsers).userId,
                               "match:declined", "", 0)
  /\ Finish(t)
  /\ UNCHANGED <<globalState, localState, storeState, socketState,
                 conversations, budget, rooms, relayed, found,
                 presenceState, typingTimeouts, nearbyState>>

\* match:end_session
EndSession(u) ==
  /\ connected[u]
  /\ Deliver
  /\ LET partnerId == activeMatches[u]
     IN  IF partnerId = None
         THEN /\ emitted' = {}
              /\ UNCHANGED activeMatches
         ELSE /\ activeMatches' = MapDelete(MapDelete(activeMatches, u), partnerId)
              /\ emitted' =
                   PartnerSockets(partnerId, "match:partner_left",
                                  "Partner left the session", 0)
                   \cup {Msg(u, socketId[u], "match:session_ended", "", 0)}
  /\ UNCHANGED <<matchingQueue, localState, tasks, storeState, socketState,
                 conversations, rooms, relayed, found,
                 presenceState, typingTimeouts, nearbyState>>

\* the disconnect listener of matchHandler after the cache delete
MatchDisconnectCleanup(t) ==
  /\ t.kind = "match:disconnect" /\ t.pc = "cache"
  /\ LET partnerId == activeMatches[t.userId]
     IN  IF partnerId = None
         THEN /\ emitted' = {}
              /\ UNCHANGED activeMatches
         ELSE /\ activeMatches' =
                   MapDelete(MapDelete(activeMatches, t.userId), partnerId)
              /\ emitted' = PartnerSockets(partnerId, "match:partner_left",
                                           "Partner disconnected", 0)
  /\ Finish(t)
  /\ UNCHANGED <<matchingQueue, localState, storeState, socketState,
                 conversations, budget, rooms, relayed, found,
                 presenceState, typingTimeouts, nearbyState>>

\* ======================================================================
\* localMatchHandler.ts: the geo queue
\* ======================================================================
Abs(x) == IF x < 0 THEN -x ELSE x
\* utils/distance: great-circle distance in kilometres.  The model's
\* coordinates are kilometres along one meridian, where that distance is the
\* difference of the latitudes.
calculateDistance(lat1, lng1, lat2, lng2) == Abs(lat1 - lat2)

removeFromLocalQueue(q, targetUserId) ==
  LET index == FindIndex(q, targetUserId)
  IN  IF index # -1
      THEN SubSeq(q, 1, index) \o SubSeq(q, index + 2, Len(q))
      ELSE q

\* (mutant) the filter tests the searcher's radius alone
WithinSearcherRangeOnly(userLat, userLng, preferences, queued) ==
  calculateDistance(userLat, userLng, queued.latitude, queued.longitude)
    <= preferences.maxDistance

\* findLocalMatch: the filter that builds compatibleUsers
WithinBothRanges(userLat, userLng, preferences, queued) ==
  LET distance == calculateDistance(userLat, userLng,
                                    queued.latitude, queued.longitude)
      withinSearcherRange == distance <= preferences.maxDistance
      withinPartnerRange == distance <= queued.preferences.maxDistance
  IN  withinSearcherRange /\ withinPartnerRange

LocalCompatibleUsers(q, reg, searchingUserId, userLat, userLng, preferences) ==
  SelectSeq(q, LAMBDA queued :
    /\ queued.userId # searchingUserId
    /\ ~MapHas(reg, queued.userId)
    /\ queued.preferences.mode = preferences.mode
    /\ WithinBothRanges(userLat, userLng, preferences, queued))

\* compatibleUsers.sort((a, b) => distA - distB): stable, nearest first
RECURSIVE InsertByDistance(_, _, _, _)
InsertByDistance(sorted, e, userLat, userLng) ==
  IF sorted = <<>> THEN <<e>>
  ELSE IF calculateDistance(userLat, userLng, e.latitude, e.longitude)
          < calculateDistance(userLat, userLng,
                              Head(sorted).latitude, Head(sorted).longitude)
  THEN <<e>> \o sorted
  ELSE <<Head(sorted)>> \o InsertByDistance(Tail(sorted), e, userLat, userLng)

RECURSIVE SortByDistance(_, _, _)
SortByDistance(q, userLat, userLng) ==
  IF q = <<>> THEN <<>>
  ELSE InsertByDistance(
         SortByDistance(SubSeq(q, 1, Len(q) - 1), userLat, userLng),
         q[Len(q)], userLat, userLng)

\* local_match:start_searching, up to the location query
LocalStartSearching(u, preferences) ==
  /\ connected[u]
  /\ Deliver
  /\ activeLocalMatches' =
       IF MapHas(activeLocalMatches, u)
       THEN MapDelete(MapDelete(activeLocalMatches, u), activeLocalMatches[u])
       ELSE activeLocalMatches
  /\ IF InQueue(localMatchingQueue, u)
     THEN /\ emitted' = {Msg(u, socketId[u], "local_match:searching",
                             "Already searching locally...",
                             FindIndex(localMatchingQueue, u) + 1)}
          /\ UNCHANGED tasks
     ELSE /\ CanSpawn(1)
          /\ Spawn(Task("local_match:start_searching", u, "location", preferences))
          /\ emitted' = {}
  /\ UNCHANGED <<globalState, localMatchingQueue, storeState, socketState,
                 conversations, rooms, relayed, found,
                 presenceState, typingTimeouts, nearbyState>>

\* (mutant) a user without a row of locations searches from the default
\* coordinates
LocalLocationUnchecked(t) ==
  /\ t.kind = "local_match:start_searching" /\ t.pc = "location"
  /\ Resume(t, [t EXCEPT !.latitude = locations[t.userId].latitude,
                          !.longitude = locations[t.userId].longitude,
                          !.pc = "profile"])
  /\ emitted' = {}
  /\ UNCHANGED <<globalState, localState, storeState, socketState,
                 conversations, budget, rooms, relayed, found,
                 presenceState, typingTimeouts, nearbyState>>

\* local_match:start_searching, from the location row to the profile query
LocalLocation(t) ==
  /\ t.kind = "local_match:start_searching" /\ t.pc = "location"
  /\ IF locations[t.userId] = NoLocation
     THEN /\ emitted' = {Msg(t.userId, t.socket, "error",
                             "Please share your location first to use Local Mode", 0)}
          /\ Finish(t)
     ELSE /\ Resume(t, [t EXCEPT !.latitude = locations[t.userId].latitude,
                                 !.longitude = locations[t.userId].longitude,
                                 !.pc = "profile"])
          /\ emitted' = {}
  /\ UNCHANGED <<globalState, localState, storeState, socketState,
                 conversations, budget, rooms, relayed, found,
                 presenceState, typingTimeouts, nearbyState>>

\* local_match:start_searching, from the profile row to the cache write
LocalQueueUser(t) ==
  /\ t.kind = "local_match:start_searching" /\ t.pc = "profile"
  /\ IF t.userId \in deleted
     THEN /\ emitted' = {Msg(t.userId, t.socket, "error", "User not found", 0)}
          /\ Finish(t)
          /\ UNCHANGED localMatchingQueue
     ELSE /\ localMatchingQueue' = Append(localMatchingQueue,
               [userId |-> t.userId, socketId |-> t.socket,
                latitude |-> t.latitude, longitude |-> t.longitude,
                preferences |-> t.preferences])
          /\ Resume(t, [t EXCEPT !.pc = "cache"])
          /\ emitted' = {}
  /\ UNCHANGED <<globalState, activeLocalMatches, storeState, socketState,
                 conversations, budget, rooms, relayed, found,
                 presenceState, typingTimeouts, nearbyState>>

\* local_match:start_searching after the cache write: the ack, then
\* findLocalMatch up to the first candidate's profile query
FindLocalMatch(t) ==
  /\ t.kind = "local_match:start_searching" /\ t.pc = "cache"
  /\ emitted' = {Msg(t.userId, t.socket, "local_match:searching",
                      "Searching for nearby match...", Len(localMatchingQueue))}
  /\ NextCandidate(t,
       SortByDistance(
         LocalCompatibleUsers(localMatchingQueue, activeLocalMatches, t.userId,
                              t.latitude, t.longitude, t.preferences),
         t.latitude, t.longitude))
  /\ UNCHANGED <<globalState, localState, storeState, socketState,
                 conversations, budget, rooms, relayed, found,
                 presenceState, typingTimeouts, nearbyState>>

\* findLocalMatch: a candidate's profile row arrives
CheckLocalCandidate(t) ==
  /\ t.kind = "local_match:start_searching" /\ t.pc = "candidate"
  /\ LET matchedQueued == Head(t.compatibleUsers)
         rest == Tail(t.compatibleUsers)
     IN  IF matchedQueued.userId \in deleted
         THEN /\ localMatchingQueue' =
                   removeFromLocalQueue(localMatchingQueue, matchedQueued.userId)
              /\ NextCandidate(t, rest)
         ELSE IF ~GenderAgeCompatible(t.preferences, t.userId, matchedQueued)
         THEN /\ NextCandidate(t, rest)
              /\ UNCHANGED localMatchingQueue
         ELSE /\ Resume(t, [t EXCEPT !.pc = "block"])
              /\ UNCHANGED localMatchingQueue
  /\ emitted' = {}
  /\ UNCHANGED <<globalState, activeLocalMatches, storeState, socketState,
                 conversations, budget, rooms, relayed, found,
                 presenceState, typingTimeouts, nearbyState>>

\* findLocalMatch: the block rows arrive; on none, both leave the queue and
\* the pair is stored
StoreLocalMatch(t) ==
  /\ t.kind = "local_match:start_searching" /\ t.pc = "block"
  /\ LET matchedQueued == Head(t.compatibleUsers)
         rest == Tail(t.compatibleUsers)
     IN  IF BlockRows(t.userId, matchedQueued.userId) # {}
         THEN /\ NextCandidate(t, rest)
              /\ UNCHANGED localState
         ELSE /\ localMatchingQueue' =
                   removeFromLocalQueue(
                     removeFromLocalQueue(localMatchingQueue, t.userId),
                     matchedQueued.userId)
              /\ activeLocalMatches' =
                   MapSet(MapSet(activeLocalMatches, t.userId, matchedQueued.userId),
                          matchedQueued.userId, t.userId)
              /\ Resume(t, [t EXCEPT !.pc = "conversation"])
  /\ emitted' = {}
  /\ UNCHANGED <<globalState, storeState, socketState, conversations, budget,
                 rooms, relayed, found,
                 presenceState, typingTimeouts, nearbyState>>

\* findLocalMatch: the conversation rows arrive; reuse one or insert
FindLocalConversation(t) ==
  /\ t.kind = "local_match:start_searching" /\ t.pc = "conversation"
  /\ LET rows == ConversationRows(t.userId, Head(t.compatibleUsers).userId)
     IN  IF rows # {}
         THEN \E id \in rows :
                Resume(t, [t EXCEPT !.conversationId = id, !.pc = "matchcache"])
         ELSE Resume(t, [t EXCEPT !.pc = "insert"])
  /\ emitted' = {}
  /\ UNCHANGED <<globalState, localState, storeState, socketState,
                 conversations, budget, rooms, relayed, found,
                 presenceState, typingTimeouts, nearbyState>>

\* findLocalMatch: the INSERT returns the new conversation's id
InsertLocalConversation(t) ==
  /\ t.kind = "local_match:start_searching" /\ t.pc = "insert"
  /\ conversations' = Append(conversations,
        [user_1_id |-> t.userId,
         user_2_id |-> Head(t.compatibleUsers).userId,
         chat_mode |-> t.preferences.mode])
  /\ Resume(t, [t EXCEPT !.conversationId = Len(conversations) + 1,
                         !.pc = "matchcache"])
  /\ emitted' = {}
  /\ UNCHANGED <<globalState, localState, storeState, socketState, budget,
                 rooms, relayed, found,
                 presenceState, typingTimeouts, nearbyState>>

\* io.to(socketId): the socket of that id, if it is still connected
SocketRoom(u, sock, ev, message, arg) ==
  IF connected[u] /\ socketId[u] = sock
  THEN {Msg(u, sock, ev, message, arg)} ELSE {}

\* findLocalMatch after the match's cache write: local_match:found to both
AnnounceLocalMatch(t) ==
  /\ t.kind = "local_match:start_searching" /\ t.pc = "matchcache"
  /\ LET matchedQueued == Head(t.compatibleUsers)
         toSearcher == Msg(t.userId, t.socket, "local_match:found", "",
                           t.conversationId)
         toPartner == Msg(matchedQueued.userId, matchedQueued.socketId,
                          "local_match:found", "", t.conversationId)
     IN  /\ rooms' = IF Live(t.userId, t.socket)
                     THEN Join(rooms, t.userId, MatchRoom(t.conversationId))
                     ELSE rooms
         /\ emitted' = {toSearcher}
              \cup SocketRoom(matchedQueued.userId, matchedQueued.socketId,
                              "local_match:found", "", t.conversationId)
         /\ found' = found \o FoundLog(toSearcher, <<toPartner>>)
  /\ Finish(t)
  /\ UNCHANGED <<globalState, localState, storeState, socketState,
                 conversations, budget, relayed,
                 presenceState, typingTimeouts, nearbyState>>

\* local_match:stop_searching, up to the cache delete
LocalStopSearching(u) ==
  /\ connected[u]
  /\ Deliver
  /\ CanSpawn(1)
  /\ localMatchingQueue' = removeFromLocalQueue(localMatchingQueue, u)
  /\ Spawn(Task("local_match:stop_searching", u, "cache", NoPrefs))
  /\ emitted' = {}
  /\ UNCHANGED <<globalState, activeLocalMatches, storeState, socketState,
                 conversations, rooms, relayed, found,
                 presenceState, typingTimeouts, nearbyState>>

\* local_match:stop_searching after the cache delete.  The partner's notice
\* goes to io.to(partnerId), a room no socket has joined (sockets join
\* `user:${id}` and conversation rooms), so nobody receives it.
LocalStopped(t) ==
  /\ t.kind = "local_match:stop_searching" /\ t.pc = "cache"
  /\ LET partnerId == activeLocalMatches[t.userId]
     IN  activeLocalMatches' =
           IF partnerId # None
           THEN MapDelete(MapDelete(activeLocalMatches, t.userId), partnerId)
           ELSE activeLocalMatches
  /\ emitted' = {Msg(t.userId, t.socket, "local_match:stopped", "", 0)}
  /\ Finish(t)
  /\ UNCHANGED <<globalState, localMatchingQueue, storeState, socketState,
                 conversations, budget, rooms, relayed, found,
                 presenceState, typingTimeouts, nearbyState>>

\* local_match:skip
LocalSkipMatch(u) ==
  /\ connected[u]
  /\ Deliver
  /\ LET partnerId == activeLocalMatches[u]
     IN  IF partnerId = None
         THEN /\ emitted' = {}
              /\ UNCHANGED activeLocalMatches
         ELSE /\ activeLocalMatches' =
                   MapDelete(MapDelete(activeLocalMatches, u), partnerId)
              /\ emitted' =
                   PartnerSockets(partnerId, "local_match:partner_skipped", "", 0)
                   \cup {Msg(u, socketId[u], "local_match:skipped", "", 0)}
  /\ UNCHANGED <<globalState, localMatchingQueue, tasks, storeState,
                 socketState, conversations, rooms, relayed, found,
                 presenceState, typingTimeouts, nearbyState>>

\* the disconnect listener of localMatchHandler after the cache delete
LocalDisconnectCleanup(t) ==
  /\ t.kind = "local_match:disconnect" /\ t.pc = "cache"
  /\ LET partnerId == activeLocalMatches[t.userId]
     IN  IF partnerId = None
         THEN /\ emitted' = {}
              /\ UNCHANGED activeLocalMatches
         ELSE /\ activeLocalMatches' =
                   MapDelete(MapDelete(activeLocalMatches, t.userId), partnerId)
              /\ emitted' = PartnerSockets(partnerId, "local_match:partner_left",
                                           "Partner disconnected", 0)
  /\ Finish(t)
  /\ UNCHANGED <<globalState, localMatchingQueue, storeState, socketState,
                 conversations, budget, rooms, relayed, found,
                 presenceState, typingTimeouts, nearbyState>>

\* ======================================================================
\* store and cache calls that fail: query() and setRedis() rethrow
\* ======================================================================
\* the suspension points of a start-search inside findMatch / findLocalMatch
FindMatchCalls == {"candidate", "block", "conversation", "insert", "matchcache"}

\* match:start_searching: the profile query or the cache write of the queue
\* entry throws; the handler's catch reports to the caller
StartSearchingFailed(t) ==
  /\ t.kind = "match:start_searching" /\ t.pc \in {"profile", "cache"}
  /\ emitted' = {Msg(t.userId, t.socket, "error", "Failed to start searching", 0)}
  /\ Finish(t)
  /\ UNCHANGED <<globalState, localState, storeState, socketState,
                 conversations, budget, rooms, relayed, found,
                 presenceState, typingTimeouts, nearbyState>>

\* findMatch: a call inside it throws; its catch writes to the console and
\* findMatch returns to the handler, which ends
FindMatchFailed(t) ==
  /\ t.kind = "match:start_searching" /\ t.pc \in FindMatchCalls
  /\ emitted' = {}
  /\ Finish(t)
  /\ UNCHANGED <<globalState, localState, storeState, socketState,
                 conversations, budget, rooms, relayed, found,
                 presenceState, typingTimeouts, nearbyState>>

\* local_match:start_searching: the location or profile query or the cache
\* write of the queue entry throws
LocalStartSearchingFailed(t) ==
  /\ t.kind = "local_match:start_searching"
  /\ t.pc \in {"location", "profile", "cache"}
  /\ emitted' = {Msg(t.userId, t.socket, "error", "Failed to start searching", 0)}
  /\ Finish(t)
  /\ UNCHANGED <<globalState, localState, storeState, socketState,
                 conversations, budget, rooms, relayed, found,
                 presenceState, typingTimeouts, nearbyState>>

\* findLocalMatch: a call inside it throws
FindLocalMatchFailed(t) ==
  /\ t.kind = "local_match:start_searching" /\ t.pc \in FindMatchCalls
  /\ emitted' = {}
  /\ Finish(t)
  /\ UNCHANGED <<globalState, localState, storeState, socketState,
                 conversations, budget, rooms, relayed, found,
                 presenceState, typingTimeouts, nearbyState>>

\* ======================================================================
\* chatHandler.ts: conversation rooms and the WebRTC signaling relay
\* ======================================================================
\* conversation ids a client may name in join_chat / leave_chat
ChatIds == {1}
\* room names a client may send as the conversationId of a signaling event:
\* the bare id a match joins, the room join_chat joins, a personal room
SignalRooms == {MatchRoom(1), ChatRoom(1), UserRoom(2)}
\* opaque payloads
Offers == {"offer"}
Answers == {"answer"}
Candidates == {"candidate1", "candidate2"}
Toggles == {"video:off"}

\* the connected sockets that are in the room
Members(room) == {v \in Users : connected[v] /\ room \in rooms[v]}
\* socket.to(room).emit(ev, {userId, payload}): every socket of the room but
\* the sending one
SocketTo(u, room, ev, payload) ==
  {Msg(v, socketId[v], ev, payload, u) : v \in Members(room) \ {u}}
\* the relay's effect on the state: the events, and the log of what reached
\* somebody
Forward(u, room, ev, payload) ==
  /\ emitted' = SocketTo(u, room, ev, payload)
  /\ relayed' = IF SocketTo(u, room, ev, payload) # {}
                THEN relayed \cup {<<ev, room>>} ELSE relayed

\* join_chat, up to the UPDATE that marks the messages read
JoinChat(u, conversationId) ==
  /\ connected[u]
  /\ Deliver
  /\ CanSpawn(1)
  /\ rooms' = Join(rooms, u, ChatRoom(conversationId))
  /\ Spawn([Task("join_chat", u, "read", NoPrefs)
              EXCEPT !.conversationId = conversationId])
  /\ emitted' = {}
  /\ UNCHANGED <<globalState, localState, storeState, socketState,
                 conversations, relayed, found,
                 presenceState, typingTimeouts, nearbyState>>

\* join_chat after the UPDATE
ChatJoined(t) ==
  /\ t.kind = "join_chat" /\ t.pc = "read"
  /\ emitted' = {Msg(t.userId, t.socket, "chat:joined", "Joined conversation",
                      t.conversationId)}
  /\ Finish(t)
  /\ UNCHANGED <<globalState, localState, storeState, socketState,
                 conversations, budget, rooms, relayed, found,
                 presenceState, typingTimeouts, nearbyState>>

\* leave_chat
LeaveChat(u, conversationId) ==
  /\ connected[u]
  /\ Deliver
  /\ rooms' = [rooms EXCEPT ![u] = @ \ {ChatRoom(conversationId)}]
  /\ emitted' = {}
  /\ UNCHANGED <<globalState, localState, tasks, storeState, socketState,
                 conversations, relayed, found,
                 presenceState, typingTimeouts, nearbyState>>

\* (mutant) the offer is forwarded without the membership test
WebrtcOfferUnchecked(u, conversationId, offer) ==
  /\ connected[u]
  /\ Deliver
  /\ Forward(u, conversationId, "webrtc:offer", offer)
  /\ UNCHANGED <<globalState, localState, tasks, storeState, socketState,
                 conversations, rooms, found,
                 presenceState, typingTimeouts, nearbyState>>

\* webrtc:offer: dropped unless the sending socket is in the named room
WebrtcOffer(u, conversationId, offer) ==
  /\ connected[u]
  /\ Deliver
  /\ IF conversationId \notin rooms[u]
     THEN emitted' = {} /\ UNCHANGED relayed
     ELSE Forward(u, conversationId, "webrtc:offer", offer)
  /\ UNCHANGED <<globalState, localState, tasks, storeState, socketState,
                 conversations, rooms, found,
                 presenceState, typingTimeouts, nearbyState>>

\* webrtc:answer
WebrtcAnswer(u, conversationId, answer) ==
  /\ connected[u]
  /\ Deliver
  /\ Forward(u, conversationId, "webrtc:answer", answer)
  /\ UNCHANGED <<globalState, localState, tasks, storeState, socketState,
                 conversations, rooms, found,
                 presenceState, typingTimeouts, nearbyState>>

\* webrtc:ice-candidate
WebrtcIceCandidate(u, conversationId, candidate) ==
  /\ connected[u]
  /\ Deliver
  /\ Forward(u, conversationId, "webrtc:ice-candidate", candidate)
  /\ UNCHANGED <<globalState, localState, tasks, storeState, socketState,
                 conversations, rooms, found,
                 presenceState, typingTimeouts, nearbyState>>

\* webrtc:end-call, forwarded as webrtc:call-ended
WebrtcEndCall(u, conversationId) ==
  /\ connected[u]
  /\ Deliver
  /\ Forward(u, conversationId, "webrtc:call-ended", "")
  /\ UNCHANGED <<globalState, localState, tasks, storeState, socketState,
                 conversations, rooms, found,
                 presenceState, typingTimeouts, nearbyState>>

\* webrtc:media-toggle
WebrtcMediaToggle(u, conversationId, toggle) ==
  /\ connected[u]
  /\ Deliver
  /\ Forward(u, conversationId, "webrtc:media-toggle", toggle)
  /\ UNCHANGED <<globalState, localState, tasks, storeState, socketState,
                 conversations, rooms, found,
                 presenceState, typingTimeouts, nearbyState>>

\* ======================================================================
\* statusHandler: presence, with a grace period after a disconnect
\* ======================================================================
\* A user may hold a second connection (another tab or device) next to the
\* one `connected` tracks; it is opened after the first and closed before
\* it, so that fetchSockets()[0] stays the first.  Its socket id:
SecondSocket == 0
\* the connections a user may hold, and whether one is live
Tabs == {1, 2}
Open(u, tab) == IF tab = 1 THEN connected[u] ELSE second[u]
SocketOf(u, tab) == IF tab = 1 THEN socketId[u] ELSE SecondSocket

\* io.emit(ev, payload): every live socket
Everyone(ev, message, arg) ==
  {Msg(v, SocketOf(v, tab), ev, message, arg) :
     <<v, tab>> \in {s \in Users \X Tabs : Open(s[1], s[2])}}

\* what a client may send as the status of status:update
Statuses == {"idle", "offline", "busy"}
validStatuses == {"online", "idle", "offline"}

\* an invocation of setOnline, setOffline or status:update
StatusTask(kind, u, pc, st) ==
  [kind |-> kind, userId |-> u, pc |-> pc, status |-> st]
StatusInFlight == BagToSet(statusTasks)
\* setOnline(), called when a connection is set up, up to its UPDATE
setOnline(u) ==
  statusTasks' =
    statusTasks (+) SetToBag({StatusTask("setOnline", u, "query", "online")})

\* setOnline / setOffline after the UPDATE of users: the status is written
\* to the cache
StatusQueried(t) ==
  /\ t.kind \in {"setOnline", "setOffline"} /\ t.pc = "query"
  /\ statusTasks' = (statusTasks (-) SetToBag({t}))
                      (+) SetToBag({[t EXCEPT !.pc = "status"]})
  /\ emitted' = {}
  /\ UNCHANGED <<globalState, localState, tasks, storeState, socketState,
                 conversations, budget, rooms, relayed, found, status,
                 offlineTimers, typingTimeouts, nearbyState>>

\* the cache holds the status; last_activity is written
StatusCached(t) ==
  /\ t.kind \in {"setOnline", "setOffline"} /\ t.pc = "status"
  /\ status' = [status EXCEPT ![t.userId] = t.status]
  /\ statusTasks' = (statusTasks (-) SetToBag({t}))
                      (+) SetToBag({[t EXCEPT !.pc = "activity"]})
  /\ emitted' = {}
  /\ UNCHANGED <<globalState, localState, tasks, storeState, socketState,
                 conversations, budget, rooms, relayed, found,
                 offlineTimers, typingTimeouts, nearbyState>>

\* the broadcast that ends setOnline / setOffline
StatusBroadcast(t) ==
  /\ t.kind \in {"setOnline", "setOffline"} /\ t.pc = "activity"
  /\ emitted' = IF t.kind = "setOnline"
                THEN Everyone("status:user_online", t.status, t.userId)
                ELSE Everyone("status:user_offline", "lastSeen", t.userId)
  /\ statusTasks' = statusTasks (-) SetToBag({t})
  /\ UNCHANGED <<globalState, localState, tasks, storeState, socketState,
                 conversations, budget, rooms, relayed, found, status,
                 offlineTimers, typingTimeouts, nearbyState>>

\* status:update, up to its cache write; an unknown status is dropped
StatusUpdate(u, tab, st) ==
  /\ Open(u, tab)
  /\ Deliver
  /\ IF st \notin validStatuses
     THEN UNCHANGED statusTasks
     ELSE statusTasks' =
            statusTasks (+) SetToBag({StatusTask("status:update", u, "status", st)})
  /\ emitted' = {}
  /\ UNCHANGED <<globalState, localState, tasks, storeState, socketState,
                 conversations, rooms, relayed, found, status,
                 offlineTimers, typingTimeouts, nearbyState>>

\* status:update after its cache write: the broadcast
StatusUpdated(t) ==
  /\ t.kind = "status:update" /\ t.pc = "status"
  /\ status' = [status EXCEPT ![t.userId] = t.status]
  /\ emitted' = Everyone("status:user_online", t.status, t.userId)
  /\ statusTasks' = statusTasks (-) SetToBag({t})
  /\ UNCHANGED <<globalState, localState, tasks, storeState, socketState,
                 conversations, budget, rooms, relayed, found,
                 offlineTimers, typingTimeouts, nearbyState>>

\* io.sockets.adapter.rooms.get(`user:${u}`) is there and not empty
stillConnected(u) == connected[u] \/ second[u]

\* (mutant) the grace timer sets the user offline without looking at the room
OfflineTimeoutUnchecked(u) ==
  /\ offlineTimers[u] > 0
  /\ offlineTimers' = [offlineTimers EXCEPT ![u] = @ - 1]
  /\ statusTasks' =
       statusTasks (+) SetToBag({StatusTask("setOffline", u, "query", "offline")})
  /\ emitted' = {}
  /\ UNCHANGED <<globalState, localState, tasks, storeState, socketState,
                 conversations, budget, rooms, relayed, found, status,
                 typingTimeouts, nearbyState>>

\* a grace timer of the disconnect listener fires (the timers of one user
\* run for the same time, so the oldest fires): setOffline starts, up to its
\* UPDATE, unless a socket of the user is in the user's room
OfflineTimeout(u) ==
  /\ offlineTimers[u] > 0
  /\ offlineTimers' = [offlineTimers EXCEPT ![u] = @ - 1]
  /\ IF stillConnected(u)
     THEN UNCHANGED statusTasks
     ELSE statusTasks' =
            statusTasks (+) SetToBag({StatusTask("setOffline", u, "query", "offline")})
  /\ emitted' = {}
  /\ UNCHANGED <<globalState, localState, tasks, storeState, socketState,
                 conversations, budget, rooms, relayed, found, status,
                 typingTimeouts, nearbyState>>

\* ======================================================================
\* typingHandler.ts: typing indicators with auto-expiry
\* ======================================================================
\* typingTimeouts is a Map of the connection, one per socket, from
\* `${conversationId}:${userId}` to the timer.  All timers run for the same
\* time, so they fire in the order they were armed: the variable lists the
\* armed timers of all sockets, oldest first, each as <<user, tab,
\* conversationId>>.
TypingSockets == Users \X Tabs
NoTimeouts == <<>>
\* the conversation ids a client may send with a typing event, each as the
\* segments between its colons: "1" and "1:9"
TypingIds == {<<1>>, <<1, 9>>}
\* `conversation:${conversationId}`; for the id "1" the room of ChatRoom(1)
TypingRoom(conversationId) == <<"conversation:">> \o conversationId
\* `${conversationId}:${userId}`
timeoutKey(conversationId, u) == conversationId \o <<u>>
\* const [conversationId] = key.split(':')
KeyConversation(key) == <<Head(key)>>
\* the keys of the socket's Map, by their conversation ids
Armed(u, tab) ==
  {c \in TypingIds :
     \E i \in 1..Len(typingTimeouts) : typingTimeouts[i] = <<u, tab, c>>}
\* clearTimeout and typingTimeouts.delete of one key
Cleared(u, tab, conversationId) ==
  SelectSeq(typingTimeouts, LAMBDA timer : timer # <<u, tab, conversationId>>)
\* socket.to(`conversation:${c}`).emit(ev, {conversationId, userId}): the
\* sockets of the room but the sending one; a second connection joins no
\* conversation room
TypingTo(u, tab, conversationId, ev) ==
  {Msg(v, socketId[v], ev, conversationId, u) :
     v \in Members(TypingRoom(conversationId)) \ (IF tab = 1 THEN {u} ELSE {})}

\* typing:start: the socket's timer of the conversation is cleared and armed
TypingStart(u, tab, conversationId) ==
  /\ Open(u, tab)
  /\ Deliver
  /\ emitted' = TypingTo(u, tab, conversationId, "typing:user_typing")
  /\ typingTimeouts' =
       Append(Cleared(u, tab, conversationId), <<u, tab, conversationId>>)
  /\ UNCHANGED <<globalState, localState, tasks, storeState, socketState,
                 conversations, rooms, relayed, found, presenceState, nearbyState>>

\* typing:stop: the socket's timer, if any, is cleared
TypingStop(u, tab, conversationId) ==
  /\ Open(u, tab)
  /\ Deliver
  /\ typingTimeouts' = Cleared(u, tab, conversationId)
  /\ emitted' = TypingTo(u, tab, conversationId, "typing:user_stopped")
  /\ UNCHANGED <<globalState, localState, tasks, storeState, socketState,
                 conversations, rooms, relayed, found, presenceState, nearbyState>>

\* the oldest armed timer fires
TypingExpire(u, tab, conversationId) ==
  /\ typingTimeouts # <<>>
  /\ Head(typingTimeouts) = <<u, tab, conversationId>>
  /\ emitted' = TypingTo(u, tab, conversationId, "typing:user_stopped")
  /\ typingTimeouts' = Tail(typingTimeouts)
  /\ UNCHANGED <<globalState, localState, tasks, storeState, socketState,
                 conversations, budget, rooms, relayed, found, presenceState, nearbyState>>

\* the disconnect listener: for every key of the socket's Map, its first
\* segment names the room and the conversation of io.to(room).emit; the
\* socket has left its rooms by then
TypingCleanup(u, tab) ==
  {Msg(x[1], socketId[x[1]], "typing:user_stopped", x[2], u) :
     x \in {y \in Users \X {KeyConversation(timeoutKey(c, u)) : c \in Armed(u, tab)} :
              /\ connected[y[1]]
              /\ tab = 1 => y[1] # u
              /\ TypingRoom(y[2]) \in rooms[y[1]]}}
\* typingTimeouts.clear() of the socket
AllCleared(u, tab) ==
  SelectSeq(typingTimeouts, LAMBDA timer : ~(timer[1] = u /\ timer[2] = tab))

\* ======================================================================
\* locationHandler: the nearby-users subscription and its periodic refresh
\* ======================================================================
\* nearbySubscription and updateInterval are variables of the connection's
\* closure: one pair per socket.  A user's sockets are numbered from 1, a
\* reconnect taking the next number; second connections send no location
\* event, so their closures stay as they were created.
SocketIds == 1..(1 + RematchEvents \div 2)
Connections == Users \X SocketIds
\* the radius a client may subscribe with, in kilometres
Radii == {3, 5}
NearbyKinds == {"location:subscribe_nearby", "location:interval"}
Largest(S) == CHOOSE x \in S : \A y \in S : y <= x
\* the handles of the connection's armed intervals
ArmedIntervals(c) ==
  {i[3] : i \in {j \in intervals : j[1] = c[1] /\ j[2] = c[2]}}
\* setInterval returns a handle that no armed timer of the connection has
\* and that the closure does not hold
NewInterval(c) == 1 + Largest(ArmedIntervals(c) \cup {updateInterval[c]})
\* clearInterval(handle)
ClearInterval(c, handle) == intervals \ {<<c[1], c[2], handle>>}

\* if (updateInterval) clearInterval(updateInterval);
\* updateInterval = setInterval(...)
ArmInterval(c) ==
  /\ intervals' = ClearInterval(c, updateInterval[c])
                    \cup {<<c[1], c[2], NewInterval(c)>>}
  /\ updateInterval' = [updateInterval EXCEPT ![c] = NewInterval(c)]

\* location:subscribe_nearby, up to the first query of sendNearbyUsers
SubscribeNearby(u, radius) ==
  /\ connected[u]
  /\ Deliver
  /\ CanSpawn(1)
  /\ nearbySubscription' =
       [nearbySubscription EXCEPT ![<<u, socketId[u]>>] = radius]
  /\ Spawn(Task("location:subscribe_nearby", u, "location",
                [radius |-> radius]))
  /\ emitted' = {}
  /\ UNCHANGED <<globalState, localState, storeState, socketState,
                 conversations, rooms, relayed, found,
                 presenceState, typingTimeouts, updateInterval, intervals>>

\* sendNearbyUsers has returned to its caller: the subscribe handler goes on
\* to arm the interval, the interval's callback ends
NearbyReturns(t) ==
  /\ Finish(t)
  /\ IF t.kind = "location:subscribe_nearby"
     THEN ArmInterval(<<t.userId, t.socket>>)
     ELSE UNCHANGED <<updateInterval, intervals>>
  /\ UNCHANGED nearbySubscription

\* sendNearbyUsers: the user's own location arrives
NearbyLocated(t) ==
  /\ t.kind \in NearbyKinds /\ t.pc = "location"
  /\ IF locations[t.userId] = NoLocation
     THEN /\ emitted' = {Msg(t.userId, t.socket, "error",
                              "Please share your location first", 0)}
          /\ NearbyReturns(t)
     ELSE /\ emitted' = {}
          /\ Resume(t, [t EXCEPT !.latitude = locations[t.userId].latitude,
                                 !.longitude = locations[t.userId].longitude,
                                 !.pc = "nearby"])
          /\ UNCHANGED nearbyState
  /\ UNCHANGED <<globalState, localState, storeState, socketState,
                 conversations, budget, rooms, relayed, found,
                 presenceState, typingTimeouts>>

\* the rows of the second query: the other users that are not deleted and
\* have a location, in an order the store chooses (its NOT EXISTS reads the
\* table blocked_users, which no handler modelled here writes)
NearbyRows(u) ==
  {v \in Users \ {u} : v \notin deleted /\ locations[v] # NoLocation}
RowOrders(S) ==
  {rows \in [1..Cardinality(S) -> S] :
     \A i \in 1..Cardinality(S) : \A j \in 1..Cardinality(S) :
       rows[i] = rows[j] => i = j}
\* .map(distance).filter(distance <= radius).sort(by distance): the model's
\* distances are whole kilometres, which the rounding to two decimals keeps
NearbyUsers(t, rows) ==
  SortByDistance(
    SelectSeq([i \in 1..Len(rows) |->
                 [userId |-> rows[i],
                  latitude |-> locations[rows[i]].latitude,
                  longitude |-> locations[rows[i]].longitude]],
              LAMBDA user :
                calculateDistance(t.latitude, t.longitude,
                                  user.latitude, user.longitude)
                  <= t.preferences.radius),
    t.latitude, t.longitude)

\* sendNearbyUsers: the rows arrive and location:nearby_users is emitted
SendNearbyUsers(t) ==
  /\ t.kind \in NearbyKinds /\ t.pc = "nearby"
  /\ \E rows \in RowOrders(NearbyRows(t.userId)) :
       emitted' = {Msg(t.userId, t.socket, "location:nearby_users",
                       NearbyUsers(t, rows), Len(NearbyUsers(t, rows)))}
  /\ NearbyReturns(t)
  /\ UNCHANGED <<globalState, localState, storeState, socketState,
                 conversations, budget, rooms, relayed, found,
                 presenceState, typingTimeouts>>

\* sendNearbyUsers: a query throws; its catch reports and returns normally
SendNearbyUsersFailed(t) ==
  /\ t.kind \in NearbyKinds /\ t.pc \in {"location", "nearby"}
  /\ emitted' = {Msg(t.userId, t.socket, "error",
                     "Failed to get nearby users", 0)}
  /\ NearbyReturns(t)
  /\ UNCHANGED <<globalState, localState, storeState, socketState,
                 conversations, budget, rooms, relayed, found,
                 presenceState, typingTimeouts>>

\* the cleanup that location:unsubscribe_nearby and the disconnect listener
\* share
NearbyCleanup(c) ==
  /\ nearbySubscription' = [nearbySubscription EXCEPT ![c] = None]
  /\ intervals' = ClearInterval(c, updateInterval[c])
  /\ updateInterval' = [updateInterval EXCEPT ![c] = None]

\* location:unsubscribe_nearby
UnsubscribeNearby(u) ==
  /\ connected[u]
  /\ Deliver
  /\ NearbyCleanup(<<u, socketId[u]>>)
  /\ emitted' = {}
  /\ UNCHANGED <<globalState, localState, tasks, storeState, socketState,
                 conversations, rooms, relayed, found,
                 presenceState, typingTimeouts>>

\* an armed interval fires: sendNearbyUsers starts if the closure still
\* holds a subscription
NearbyInterval(c, handle) ==
  /\ handle \in ArmedIntervals(c)
  /\ IF nearbySubscription[c] # None
     THEN /\ CanSpawn(1)
          /\ Spawn([Task("location:interval", c[1], "location",
                         [radius |-> nearbySubscription[c]])
                      EXCEPT !.socket = c[2]])
     ELSE UNCHANGED tasks
  /\ emitted' = {}
  /\ UNCHANGED <<globalState, localState, storeState, socketState,
                 conversations, budget, rooms, relayed, found,
                 presenceState, typingTimeouts, nearbyState>>

\* ======================================================================
\* sockets and stores
\* ======================================================================
\* a socket closes and leaves its rooms: its disconnect listeners run in the
\* order socketManager registered them (typingHandler, statusHandler,
\* locationHandler, matchHandler, localMatchHandler), the last two each up to
\* its cache delete
Disconnect(u) ==
  /\ connected[u]
  /\ ~second[u]
  /\ Deliver
  /\ CanSpawn(2)
  /\ connected' = [connected EXCEPT ![u] = FALSE]
  /\ rooms' = [rooms EXCEPT ![u] = {}]
  /\ typingTimeouts' = AllCleared(u, 1)
  /\ emitted' = TypingCleanup(u, 1)
  /\ offlineTimers' = [offlineTimers EXCEPT ![u] = @ + 1]
  /\ matchingQueue' = removeFromQueue(matchingQueue, u)
  /\ localMatchingQueue' = removeFromLocalQueue(localMatchingQueue, u)
  /\ tasks' = tasks
       (+) SetToBag({Task("match:disconnect", u, "cache", NoPrefs)})
       (+) SetToBag({Task("local_match:disconnect", u, "cache", NoPrefs)})
  /\ NearbyCleanup(<<u, socketId[u]>>)
  /\ UNCHANGED <<activeMatches, activeLocalMatches, socketId, second,
                 storeState, conversations, relayed, found, status,
                 statusTasks>>

\* the user connects again, on a new socket: it joins the user's room and
\* statusHandler calls setOnline()
Connect(u) ==
  /\ ~connected[u]
  /\ Deliver
  /\ connected' = [connected EXCEPT ![u] = TRUE]
  /\ socketId' = [socketId EXCEPT ![u] = @ + 1]
  /\ rooms' = [rooms EXCEPT ![u] = {UserRoom(u)}]
  /\ setOnline(u)
  /\ emitted' = {}
  /\ UNCHANGED <<globalState, localState, tasks, storeState, second,
                 conversations, relayed, found, status, offlineTimers,
                 typingTimeouts, nearbyState>>

\* the user opens a second connection
SecondConnect(u) ==
  /\ connected[u]
  /\ ~second[u]
  /\ Deliver
  /\ second' = [second EXCEPT ![u] = TRUE]
  /\ setOnline(u)
  /\ emitted' = {}
  /\ UNCHANGED <<globalState, localState, tasks, storeState, connected,
                 socketId, conversations, rooms, relayed, found, status,
                 offlineTimers, typingTimeouts, nearbyState>>

\* the second connection closes: the same listeners, for the same user
SecondDisconnect(u) ==
  /\ second[u]
  /\ Deliver
  /\ CanSpawn(2)
  /\ second' = [second EXCEPT ![u] = FALSE]
  /\ typingTimeouts' = AllCleared(u, 2)
  /\ emitted' = TypingCleanup(u, 2)
  /\ offlineTimers' = [offlineTimers EXCEPT ![u] = @ + 1]
  /\ matchingQueue' = removeFromQueue(matchingQueue, u)
  /\ localMatchingQueue' = removeFromLocalQueue(localMatchingQueue, u)
  /\ tasks' = tasks
       (+) SetToBag({[Task("match:disconnect", u, "cache", NoPrefs)
                       EXCEPT !.socket = SecondSocket]})
       (+) SetToBag({[Task("local_match:disconnect", u, "cache", NoPrefs)
                       EXCEPT !.socket = SecondSocket]})
  /\ UNCHANGED <<activeMatches, activeLocalMatches, connected, socketId,
                 storeState, conversations, rooms, relayed, found, status,
                 statusTasks, nearbyState>>

\* DELETE /users/account: the soft delete of the user's row
DeleteAccount(u) ==
  /\ u \notin deleted
  /\ Deliver
  /\ deleted' = deleted \cup {u}
  /\ emitted' = {}
  /\ UNCHANGED <<globalState, localState, tasks, socketState, blocks,
                 locations, conversations, rooms, relayed, found,
                 presenceState, typingTimeouts, nearbyState>>

\* POST /blocks: a blocks b
BlockUser(a, b) ==
  /\ a # b
  /\ <<a, b>> \notin blocks
  /\ Deliver
  /\ blocks' = blocks \cup {<<a, b>>}
  /\ emitted' = {}
  /\ UNCHANGED <<globalState, localState, tasks, socketState, deleted,
                 locations, conversations, rooms, relayed, found,
                 presenceState, typingTimeouts, nearbyState>>

\* the user's row of locations is written
UpdateLocation(u, latitude) ==
  /\ locations[u].latitude # latitude
  /\ Deliver
  /\ locations' = [locations EXCEPT ![u] = [latitude |-> latitude, longitude |-> 0]]
  /\ emitted' = {}
  /\ UNCHANGED <<globalState, localState, tasks, socketState, deleted,
                 blocks, conversations, rooms, relayed, found,
                 presenceState, typingTimeouts, nearbyState>>

\* no queue entry, no match, no handler in flight, no timer armed; every user
\* connected on a first socket and online, every account live, no block, the
\* stored locations
Quiet ==
  /\ matchingQueue = <<>>
  /\ activeMatches = EmptyMap
  /\ localMatchingQueue = <<>>
  /\ activeLocalMatches = EmptyMap
  /\ tasks = EmptyBag
  /\ connected = [u \in Users |-> TRUE]
  /\ socketId = [u \in Users |-> 1]
  /\ deleted = {}
  /\ blocks = {}
  /\ locations = [u \in Users |-> InitialLocation(u)]
  /\ conversations = <<>>
  /\ emitted = {}
  /\ rooms = [u \in Users |-> {UserRoom(u)}]
  /\ relayed = {}
  /\ found = <<>>
  /\ second = [u \in Users |-> FALSE]
  /\ status = [u \in Users |-> "online"]
  /\ offlineTimers = [u \in Users |-> 0]
  /\ statusTasks = EmptyBag
  /\ typingTimeouts = NoTimeouts
  /\ nearbySubscription = [c \in Connections |-> None]
  /\ updateInterval = [c \in Connections |-> None]
  /\ intervals = {}

Init == Quiet /\ budget = MaxEvents

GlobalEvent ==
  \E u \in Users :
    \/ \E preferences \in GlobalPrefs : StartSearching(u, preferences)
    \/ StopSearching(u)
    \/ \E partnerId \in Users \cup {None} : SkipMatch(u, partnerId)
    \/ DeclineMatch(u)
    \/ EndSession(u)

GlobalSearchStep ==
  \/ \E t \in InFlight : QueueUser(t)
  \/ \E t \in InFlight : FindMatch(t)
  \/ \E t \in InFlight : CheckCandidate(t)
  \/ \E t \in InFlight : StoreMatch(t)
  \/ \E t \in InFlight : FindConversation(t)
  \/ \E t \in InFlight : InsertConversation(t)
  \/ \E t \in InFlight : AnnounceMatch(t)

GlobalStep ==
  \/ GlobalSearchStep
  \/ \E t \in InFlight : Stopped(t)
  \/ \E t \in InFlight : Declined(t)

LocalEvent ==
  \E u \in Users :
    \/ \E preferences \in LocalPrefs : LocalStartSearching(u, preferences)
    \/ LocalStopSearching(u)
    \/ LocalSkipMatch(u)

LocalSearchStep ==
  \/ \E t \in InFlight : LocalLocation(t)
  \/ \E t \in InFlight : LocalQueueUser(t)
  \/ \E t \in InFlight : FindLocalMatch(t)
  \/ \E t \in InFlight : CheckLocalCandidate(t)
  \/ \E t \in InFlight : StoreLocalMatch(t)
  \/ \E t \in InFlight : FindLocalConversation(t)
  \/ \E t \in InFlight : InsertLocalConversation(t)
  \/ \E t \in InFlight : AnnounceLocalMatch(t)

LocalStep ==
  \/ LocalSearchStep
  \/ \E t \in InFlight : LocalStopped(t)

Sockets ==
  \/ \E u \in Users : Disconnect(u) \/ Connect(u)
  \/ \E t \in InFlight : MatchDisconnectCleanup(t)
  \/ \E t \in InFlight : LocalDisconnectCleanup(t)

Accounts == \E u \in Users : DeleteAccount(u) \/ \E b \in Users : BlockUser(u, b)

Locations == \E u \in Users : \E latitude \in Latitudes : UpdateLocation(u, latitude)

\* the global queue: every handler of matchHandler.ts, sockets closing and
\* reopening, accounts deleted and users blocked meanwhile
Next == GlobalEvent \/ GlobalStep \/ Sockets \/ Accounts
Spec == Init /\ [][Next]_vars

\* the geo queue: every handler of localMatchHandler.ts, with the same
\* environment and the stored locations changing
NextLocal == LocalEvent \/ LocalStep \/ Sockets \/ Accounts \/ Locations
SpecLocal == Init /\ [][NextLocal]_vars

\* both queues side by side: the start-search events of either mode, every
\* client asking for a chat with anyone (in the geo queue: within 5 km), one
\* event more than in the specifications above
AnyoneGlobal ==
  {p \in GlobalPrefs : p.mode = "chat" /\ p.genderPreference = "all"}
AnyoneLocal ==
  {p \in LocalPrefs : p.mode = "chat" /\ p.genderPreference = "all"
                      /\ p.maxDistance = 5}
StartEvent ==
  \E u \in Users :
    \/ \E preferences \in AnyoneGlobal : StartSearching(u, preferences)
    \/ \E preferences \in AnyoneLocal : LocalStartSearching(u, preferences)
NextStart == StartEvent \/ GlobalSearchStep \/ LocalSearchStep
InitStart == Quiet /\ budget = MaxEvents + 1
SpecStart == InitStart /\ [][NextStart]_vars

\* two users whose clients search for each other
Pair == {1, 2}

\* the signaling relay: the two users matched by the global queue, any
\* client joining and leaving conversation rooms, and every signaling event
\* from any connected client for any room name
ChatEvent ==
  \E u \in Users : \E conversationId \in ChatIds :
    JoinChat(u, conversationId) \/ LeaveChat(u, conversationId)
SignalEvent ==
  \E u \in Users : \E conversationId \in SignalRooms :
    \/ \E offer \in Offers : WebrtcOffer(u, conversationId, offer)
    \/ \E answer \in Answers : WebrtcAnswer(u, conversationId, answer)
    \/ \E candidate \in Candidates :
         WebrtcIceCandidate(u, conversationId, candidate)
    \/ WebrtcEndCall(u, conversationId)
    \/ \E toggle \in Toggles : WebrtcMediaToggle(u, conversationId, toggle)
MatchEvent ==
  \E u \in Pair : \E preferences \in AnyoneGlobal :
    StartSearching(u, preferences)
NextSignal ==
  \/ MatchEvent
  \/ GlobalSearchStep
  \/ ChatEvent
  \/ \E t \in InFlight : ChatJoined(t)
  \/ SignalEvent
SpecSignal == Init /\ [][NextSignal]_vars

\* both queues with every event of either handler file and the environment
NextAll == Next \/ NextLocal
SpecAll == Init /\ [][NextAll]_vars

\* sockets closing and reopening while searches of either mode are in flight
NextTeardown == StartEvent \/ GlobalSearchStep \/ LocalSearchStep \/ Sockets
SpecTeardown == Init /\ [][NextTeardown]_vars

\* the two users match, skip and search again, in either queue
RematchEvent ==
  \E u \in Pair :
    \/ \E preferences \in AnyoneGlobal : StartSearching(u, preferences)
    \/ \E preferences \in AnyoneLocal : LocalStartSearching(u, preferences)
    \/ MapHas(activeMatches, u) /\ SkipMatch(u, activeMatches[u])
    \/ MapHas(activeLocalMatches, u) /\ LocalSkipMatch(u)
NextRematch == RematchEvent \/ GlobalSearchStep \/ LocalSearchStep
InitRematch == Quiet /\ budget = RematchEvents
SpecRematch == InitRematch /\ [][NextRematch]_vars

\* presence: sockets closing and reopening, second connections, clients
\* setting their status, grace timers firing
SecondSockets == \E u \in Users : SecondConnect(u) \/ SecondDisconnect(u)
StatusEvent ==
  \E u \in Users : \E tab \in Tabs : \E st \in Statuses : StatusUpdate(u, tab, st)
StatusStep ==
  \/ \E t \in StatusInFlight : StatusQueried(t)
  \/ \E t \in StatusInFlight : StatusCached(t)
  \/ \E t \in StatusInFlight : StatusBroadcast(t)
  \/ \E t \in StatusInFlight : StatusUpdated(t)
  \/ \E u \in Users : OfflineTimeout(u)
NextPresence == Sockets \/ SecondSockets \/ StatusEvent \/ StatusStep
SpecPresence == Init /\ [][NextPresence]_vars

\* typing indicators: clients of either connection typing in a conversation,
\* timers expiring, sockets closing and opening, clients joining and leaving
\* the conversation's room
TypingEvent ==
  \E u \in Users : \E tab \in Tabs : \E conversationId \in TypingIds :
    TypingStart(u, tab, conversationId) \/ TypingStop(u, tab, conversationId)
TypingTimer ==
  \E u \in Users : \E tab \in Tabs : \E conversationId \in TypingIds :
    TypingExpire(u, tab, conversationId)
NextTyping ==
  \/ TypingEvent
  \/ TypingTimer
  \/ ChatEvent
  \/ \E t \in InFlight : ChatJoined(t)
  \/ Sockets
  \/ SecondSockets
SpecTyping == Init /\ [][NextTyping]_vars

\* searches of either mode while calls to the store or the cache fail
CallFails ==
  \/ \E t \in InFlight : StartSearchingFailed(t)
  \/ \E t \in InFlight : FindMatchFailed(t)
  \/ \E t \in InFlight : LocalStartSearchingFailed(t)
  \/ \E t \in InFlight : FindLocalMatchFailed(t)
NextFailure == StartEvent \/ GlobalSearchStep \/ LocalSearchStep \/ CallFails
SpecFailure == Init /\ [][NextFailure]_vars

\* a matched user tears the match down: users 1 and 2 as a finished global
\* search of user 2 for a chat with anyone leaves them, then user 1's skip
\* while matched (naming any user), user 1's end-session and stop events
\* and user 1's socket closing and reopening
MatchedPair ==
  /\ matchingQueue = <<>>
  /\ activeMatches = MapSet(MapSet(EmptyMap, 1, 2), 2, 1)
  /\ localMatchingQueue = <<>>
  /\ activeLocalMatches = EmptyMap
  /\ tasks = EmptyBag
  /\ connected = [u \in Users |-> TRUE]
  /\ socketId = [u \in Users |-> 1]
  /\ deleted = {}
  /\ blocks = {}
  /\ locations = [u \in Users |-> InitialLocation(u)]
  /\ conversations = <<[user_1_id |-> 2, user_2_id |-> 1, chat_mode |-> "chat"]>>
  /\ emitted = {Msg(1, 1, "match:found", "", 1), Msg(2, 1, "match:found", "", 1)}
  /\ rooms = Join(Join([u \in Users |-> {UserRoom(u)}], 1, MatchRoom(1)),
                  2, MatchRoom(1))
  /\ relayed = {}
  /\ found = <<Msg(2, 1, "match:found", "", 1), Msg(1, 1, "match:found", "", 1)>>
  /\ second = [u \in Users |-> FALSE]
  /\ status = [u \in Users |-> "online"]
  /\ offlineTimers = [u \in Users |-> 0]
  /\ statusTasks = EmptyBag
  /\ typingTimeouts = NoTimeouts
  /\ nearbySubscription = [c \in Connections |-> None]
  /\ updateInterval = [c \in Connections |-> None]
  /\ intervals = {}
InitReentrant == MatchedPair /\ budget = MaxEvents
ReentrantEvent ==
  \/ \E partnerId \in Users :
       MapHas(activeMatches, 1) /\ SkipMatch(1, partnerId)
  \/ EndSession(1)
  \/ StopSearching(1)
  \/ Disconnect(1)
  \/ Connect(1)
NextReentrant ==
  \/ ReentrantEvent
  \/ \E t \in InFlight : Stopped(t)
  \/ \E t \in InFlight : MatchDisconnectCleanup(t)
  \/ \E t \in InFlight : LocalDisconnectCleanup(t)
SpecReentrant == InitReentrant /\ [][NextReentrant]_vars

\* the matched pair after the match: either user tears it down (skip,
\* decline, end-session, the socket closing and reopening) and either sends
\* signaling events for the room the match joined them to
HangupEvent ==
  \E u \in Pair :
    \/ MapHas(activeMatches, u) /\ SkipMatch(u, activeMatches[u])
    \/ DeclineMatch(u)
    \/ EndSession(u)
    \/ Disconnect(u)
    \/ Connect(u)
PairSignalEvent ==
  \E u \in Pair :
    \/ \E offer \in Offers : WebrtcOffer(u, MatchRoom(1), offer)
    \/ \E answer \in Answers : WebrtcAnswer(u, MatchRoom(1), answer)
    \/ \E candidate \in Candidates :
         WebrtcIceCandidate(u, MatchRoom(1), candidate)
    \/ WebrtcEndCall(u, MatchRoom(1))
    \/ \E toggle \in Toggles : WebrtcMediaToggle(u, MatchRoom(1), toggle)
NextHangup ==
  \/ HangupEvent
  \/ PairSignalEvent
  \/ \E t \in InFlight : Declined(t)
  \/ \E t \in InFlight : MatchDisconnectCleanup(t)
  \/ \E t \in InFlight : LocalDisconnectCleanup(t)
SpecHangup == InitReentrant /\ [][NextHangup]_vars

\* the nearby-users subscription: any connected client subscribes and
\* unsubscribes, sockets close and reopen, armed intervals fire, and the
\* queries of sendNearbyUsers return or fail
NearbyEvent ==
  \E u \in Users :
    \/ \E radius \in Radii : SubscribeNearby(u, radius)
    \/ UnsubscribeNearby(u)
NearbyStep ==
  \/ \E t \in InFlight : NearbyLocated(t)
  \/ \E t \in InFlight : SendNearbyUsers(t)
  \/ \E t \in InFlight : SendNearbyUsersFailed(t)
NearbyTimer ==
  \E c \in Connections : \E handle \in ArmedIntervals(c) :
    NearbyInterval(c, handle)
NextNearby == NearbyEvent \/ NearbyStep \/ NearbyTimer \/ Sockets
SpecNearby == Init /\ [][NextNearby]_vars

\* searches of either mode among users of whom one has blocked another:
\* user 1 blocked user 2 before any of them searched (a row of user_blocks),
\* every user has shared a location (user 3 between the other two), and
\* further blocks arrive while searches are in flight
SharedLocation(u) ==
  IF u = 3 THEN [latitude |-> 2, longitude |-> 0] ELSE InitialLocation(u)
\* the module state at load over stored rows of user_blocks and locations
QuietOver(rows, located) ==
  /\ matchingQueue = <<>>
  /\ activeMatches = EmptyMap
  /\ localMatchingQueue = <<>>
  /\ activeLocalMatches = EmptyMap
  /\ tasks = EmptyBag
  /\ connected = [u \in Users |-> TRUE]
  /\ socketId = [u \in Users |-> 1]
  /\ deleted = {}
  /\ blocks = rows
  /\ locations = located
  /\ conversations = <<>>
  /\ emitted = {}
  /\ rooms = [u \in Users |-> {UserRoom(u)}]
  /\ relayed = {}
  /\ found = <<>>
  /\ second = [u \in Users |-> FALSE]
  /\ status = [u \in Users |-> "online"]
  /\ offlineTimers = [u \in Users |-> 0]
  /\ statusTasks = EmptyBag
  /\ typingTimeouts = NoTimeouts
  /\ nearbySubscription = [c \in Connections |-> None]
  /\ updateInterval = [c \in Connections |-> None]
  /\ intervals = {}
BlockedBefore ==
  QuietOver({<<1, 2>>}, [u \in Users |-> SharedLocation(u)])
InitBlocked == BlockedBefore /\ budget = MaxEvents
Blocks == \E a \in Users : \E b \in Users : BlockUser(a, b)
NextBlocked == StartEvent \/ GlobalSearchStep \/ LocalSearchStep \/ Blocks
SpecBlocked == InitBlocked /\ [][NextBlocked]_vars

\* the geo queue with every user located: local start-search events with any
\* of the preferences, and the searches they run
Located == QuietOver({}, [u \in Users |-> SharedLocation(u)])
InitNearest == Located /\ budget = MaxEvents
LocalStartEvent ==
  \E u \in Users : \E preferences \in LocalPrefs :
    LocalStartSearching(u, preferences)
NextNearest == LocalStartEvent \/ LocalSearchStep
SpecNearest == InitNearest /\ [][NextNearest]_vars

\* the global queue while a queued user leaves and comes back: any user
\* starts a search for a chat with anyone, user 1 also stops searching
ArrivalEvent ==
  \/ \E u \in Users : \E preferences \in AnyoneGlobal :
       StartSearching(u, preferences)
  \/ StopSearching(1)
NextArrival ==
  \/ ArrivalEvent
  \/ GlobalSearchStep
  \/ \E t \in InFlight : Stopped(t)
InitArrival == Quiet /\ budget = RematchEvents
SpecArrival == InitArrival /\ [][NextArrival]_vars

\* searches of either mode while accounts are deleted
Deletes == \E u \in Users : DeleteAccount(u)
NextVanish == StartEvent \/ GlobalSearchStep \/ LocalSearchStep \/ Deletes
SpecVanish == InitStart /\ [][NextVanish]_vars

\* ======================================================================
\* properties
\* ======================================================================
Symmetric(reg) ==
  \A u \in Users : MapHas(reg, u) => reg[reg[u]] = u

\* C1 - Registry symmetry: in every reachable state, in activeMatches and in
\* activeLocalMatches, every entry u -> p has its counterpart p -> u.
RegistrySymmetry == Symmetric(activeMatches) /\ Symmetric(activeLocalMatches)

NoSharedPartner(reg) ==
  \A a, b, c \in Users : b # c => ~(reg[b] = a /\ reg[c] = a)

\* C2 - No double-match: under concurrent start-search events alone, no two
\* distinct users ever hold a registry entry that points to the same user.
NoDoubleMatch ==
  NoSharedPartner(activeMatches) /\ NoSharedPartner(activeLocalMatches)

\* C3 - Mutual exclusion of queue and registry: no user has an entry in a
\* queue and an entry in that queue's registry at once.
QueueRegistryExclusion ==
  \A u \in Users :
    /\ ~(InQueue(matchingQueue, u) /\ MapHas(activeMatches, u))
    /\ ~(InQueue(localMatchingQueue, u) /\ MapHas(activeLocalMatches, u))

EntriesOf(q, u) == {i \in 1..Len(q) : q[i].userId = u}

\* C4 - Queue-entry uniqueness: a user identifier appears in at most one
\* queue entry, counted over the global and the geo queue together.
QueueEntryUnique ==
  \A u \in Users :
    Cardinality(EntriesOf(matchingQueue, u))
      + Cardinality(EntriesOf(localMatchingQueue, u)) <= 1

\* C5 - At most one active match per user across both modes: no user has an
\* entry in activeMatches and an entry in activeLocalMatches at once.
OneActiveMatchPerUser ==
  \A u \in Users : ~(MapHas(activeMatches, u) /\ MapHas(activeLocalMatches, u))

\* a search between its read of the queue and its write of the registry
GlobalSearchOpen(t) ==
  t.kind = "match:start_searching" /\ t.pc \in {"candidate", "block"}
LocalSearchOpen(t) ==
  t.kind = "local_match:start_searching" /\ t.pc \in {"candidate", "block"}
\* the step is not one of invocation t
Waits(t) == CopiesIn(t, tasks') >= CopiesIn(t, tasks)

\* C6 - Search serialization: while a search is between building its
\* candidate list and storing the pair, no step of another handler changes
\* the queue or the registry the search works on.  (A read leaves no trace in
\* the state; the writes are what the formula can see, and one write by
\* another handler inside the window already contradicts the claim.)
SearchSerialization ==
  [][\A t \in InFlight :
       /\ (GlobalSearchOpen(t) /\ Waits(t)) => UNCHANGED globalState
       /\ (LocalSearchOpen(t) /\ Waits(t)) => UNCHANGED localState]_vars

LocalSearchKind(t) == t.kind = "local_match:start_searching"
\* distance between the searcher of t and a queue entry, from the coordinates
\* the two queue entries hold (the searcher's are those its handler queued)
EntryDistance(t, queued) ==
  calculateDistance(t.latitude, t.longitude, queued.latitude, queued.longitude)
Smaller(a, b) == IF a <= b THEN a ELSE b
InRange(t, queued) ==
  EntryDistance(t, queued)
    <= Smaller(t.preferences.maxDistance, queued.preferences.maxDistance)

\* C7 - Geo filtering: whenever a local search stores a pair, the distance
\* between the two queue entries is at most the smaller of the two
\* maxDistance values; and a search that finds every other user's entry
\* farther away than one of the two radii stores no pair and leaves the
\* local queue and the local registry as they were.
GeoFiltering ==
  [][\A t \in InFlight :
       /\ (StoreLocalMatch(t) /\ activeLocalMatches' # activeLocalMatches)
            => InRange(t, Head(t.compatibleUsers))
       /\ (/\ FindLocalMatch(t)
           /\ \A i \in 1..Len(localMatchingQueue) :
                localMatchingQueue[i].userId # t.userId
                  => ~InRange(t, localMatchingQueue[i]))
            => /\ UNCHANGED localState
               /\ tasks' = tasks (-) SetToBag({t})]_vars

\* a local search has stored a pair whose entries are 4 km apart
GeoMatchStored ==
  \E t \in InFlight :
    /\ LocalSearchKind(t) /\ t.pc = "conversation"
    /\ EntryDistance(t, Head(t.compatibleUsers)) = 4
    /\ activeLocalMatches[t.userId] = Head(t.compatibleUsers).userId


\* C8 - start-search by a user who already has an active match: the caller
\* is sent the 'already matched' error and the queue and the registry stay
\* exactly as they were, in the global and in the geo queue.
AlreadyMatchedRejected ==
  [][\A u \in Users :
       /\ \A preferences \in GlobalPrefs :
            (MapHas(activeMatches, u) /\ StartSearching(u, preferences))
              => /\ UNCHANGED <<globalState, tasks>>
                 /\ emitted' = {Msg(u, socketId[u], "error",
                                    "You already have an active match", 0)}
       /\ \A preferences \in LocalPrefs :
            (MapHas(activeLocalMatches, u) /\ LocalStartSearching(u, preferences))
              => /\ UNCHANGED <<localState, tasks>>
                 /\ \E m \in emitted' : m.to = u /\ m.ev = "error"]_vars

\* C9 - start-search by a user who already has a queue entry: queue, registry
\* and handlers in flight are unchanged (no search is run) and the caller is
\* sent one 'searching' acknowledgement whose queuePosition is the 1-based
\* index of the user's entry in that queue.
AlreadyQueuedNoOp ==
  [][\A u \in Users :
       /\ \A preferences \in GlobalPrefs :
            (InQueue(matchingQueue, u) /\ StartSearching(u, preferences))
              => /\ UNCHANGED <<globalState, tasks>>
                 /\ \E m \in emitted' :
                      /\ emitted' = {m}
                      /\ m.to = u /\ m.ev = "match:searching"
                      /\ m.arg \in EntriesOf(matchingQueue, u)
       /\ \A preferences \in LocalPrefs :
            (InQueue(localMatchingQueue, u)
             /\ LocalStartSearching(u, preferences))
              => /\ UNCHANGED <<localState, tasks>>
                 /\ \E m \in emitted' :
                      /\ emitted' = {m}
                      /\ m.to = u /\ m.ev = "local_match:searching"
                      /\ m.arg \in EntriesOf(localMatchingQueue, u)]_vars

\* C10 - Idempotent stop: once stop-searching of a user has been handled the
\* user has no queue entry, so that a second stop right after it finds
\* nothing to remove and leaves the state of the first.
IdempotentStop ==
  [][\A u \in Users :
       /\ StopSearching(u)
            => /\ ~InQueue(matchingQueue', u)
               /\ removeFromQueue(matchingQueue', u) = matchingQueue'
       /\ LocalStopSearching(u)
            => /\ ~InQueue(localMatchingQueue', u)
               /\ removeFromLocalQueue(localMatchingQueue', u)
                    = localMatchingQueue']_vars

\* what a skip of user a leaves behind, a's registry partner being reg[a]
SkipDone(reg, regAfter, a, partnerEv, ackEv) ==
  LET b == reg[a]
  IN  /\ ~MapHas(regAfter, a)
      /\ ~MapHas(regAfter, b)
      /\ connected[b] =>
           \E m \in emitted' : m.to = b /\ m.sock = socketId[b] /\ m.ev = partnerEv
      /\ \E m \in emitted' : m.to = a /\ m.ev = ackEv
      /\ conversations' = conversations

\* C11 - Skip postcondition: when user A, whose registry partner is B, issues
\* skip (match:skip with any partner argument, or local_match:skip), then
\* after the handler the registry has no entry for A and none for B, B's live
\* connection has been sent partner-skipped, A has been sent the skipped
\* acknowledgement, and the conversation rows are untouched.
SkipPostcondition ==
  [][\A u \in Users :
       /\ \A partnerId \in Users \cup {None} :
            (MapHas(activeMatches, u) /\ SkipMatch(u, partnerId))
              => SkipDone(activeMatches, activeMatches', u,
                          "match:partner_skipped", "match:skipped")
       /\ (MapHas(activeLocalMatches, u) /\ LocalSkipMatch(u))
            => SkipDone(activeLocalMatches, activeLocalMatches', u,
                        "local_match:partner_skipped", "local_match:skipped")]_vars

\* the user has no queue entry and no active match
CleanedUp(u) ==
  /\ ~InQueue(matchingQueue, u) /\ ~MapHas(activeMatches, u)
  /\ ~InQueue(localMatchingQueue, u) /\ ~MapHas(activeLocalMatches, u)
PartnerNotice(m) ==
  m.ev \in {"match:partner_skipped", "match:partner_left",
            "local_match:partner_skipped", "local_match:partner_left"}

\* C12 - skip and stop-searching on already-cleaned-up state: issued by a user
\* with no queue entry and no active match they leave every queue entry and
\* every registry entry unchanged, whatever argument skip is given, and send
\* no partner-skipped or partner-left event to another user.
CleanedUpNoOp ==
  [][\A u \in Users :
       (/\ CleanedUp(u)
        /\ \/ StopSearching(u)
           \/ LocalStopSearching(u)
           \/ LocalSkipMatch(u)
           \/ \E partnerId \in Users \cup {None} : SkipMatch(u, partnerId))
         => /\ UNCHANGED <<globalState, localState>>
            /\ \A m \in emitted' : ~(PartnerNotice(m) /\ m.to # u)]_vars

\* C13 - Disconnect teardown: once a user's socket is closed and no handler
\* is in flight any more (the disconnect listeners and every search that
\* was in flight have completed), the user has no queue entry and no
\* registry entry and no registry entry points to the user.
DisconnectTeardown ==
  \A u \in Users :
    (~connected[u] /\ tasks = EmptyBag)
      => /\ ~InQueue(matchingQueue, u) /\ ~InQueue(localMatchingQueue, u)
         /\ ~MapHas(activeMatches, u) /\ ~MapHas(activeLocalMatches, u)
         /\ \A v \in Users : activeMatches[v] # u /\ activeLocalMatches[v] # u

\* the match-found events the global queue delivered to u, as indices of found
GlobalFound(u) ==
  {i \in 1..Len(found) : found[i].to = u /\ found[i].ev = "match:found"}
\* at most two events have been delivered since InitStart
TwoEnqueues == budget >= MaxEvents - 1

\* C14 - Match-found consistency: when two compatible, unblocked users
\* enqueue in the global queue, under any interleaving of their two
\* start-search handlers, each is sent at most one match-found (exactly one
\* once both handlers are done), the events of the two carry the same
\* conversationId, and a user who was sent match-found has no queue entry.
MatchFoundConsistency ==
  TwoEnqueues =>
    \A u \in Users :
      /\ Cardinality(GlobalFound(u)) <= 1
      /\ \A i \in GlobalFound(u) :
           /\ ~InQueue(matchingQueue, u)
           /\ \A j \in GlobalFound(activeMatches[u]) : found[j].arg = found[i].arg

\* the step gives u a registry entry it did not have
Gains(reg, regAfter, u) == regAfter[u] # None /\ regAfter[u] # reg[u]
\* the step sends u the event
Sent(u, ev) == \E m \in emitted' : m.to = u /\ m.ev = ev
\* search t pairs u with another user: the searcher, whose start-search has
\* enqueued it, and the entry it selected, both of one mode and compatible
Pairs(t, u) ==
  /\ t.compatibleUsers # <<>>
  /\ LET matchedQueued == Head(t.compatibleUsers)
     IN  /\ t.userId # matchedQueued.userId
         /\ u \in {t.userId, matchedQueued.userId}
         /\ matchedQueued.preferences.mode = t.preferences.mode
         /\ GenderAgeCompatible(t.preferences, t.userId, matchedQueued)
\* every entry of the queue is u's and no search is running: u's own has
\* returned without a match and nobody else's start-search is in flight
Alone(q, kind, u) ==
  /\ InQueue(q, u)
  /\ \A i \in 1..Len(q) : q[i].userId = u
  /\ \A t \in InFlight : t.kind # kind

\* C15 - No proactive match: a user gets a registry entry or a match-found
\* event only by the step of a start-search handler that pairs the user
\* with a different, compatible user whose entry that handler or the
\* user's own enqueued; while the user's entries are the only ones in the
\* queue and no start-search is in flight (the user's search has returned),
\* no step of any handler, socket event or store event does so; and nobody
\* is matched with themselves.
NoProactiveMatch ==
  [][\A u \in Users :
       /\ Gains(activeMatches, activeMatches', u)
            => \E t \in InFlight : StoreMatch(t) /\ Pairs(t, u)
       /\ Gains(activeLocalMatches, activeLocalMatches', u)
            => \E t \in InFlight : StoreLocalMatch(t) /\ Pairs(t, u)
       /\ Sent(u, "match:found")
            => \E t \in InFlight : AnnounceMatch(t) /\ Pairs(t, u)
       /\ Sent(u, "local_match:found")
            => \E t \in InFlight : AnnounceLocalMatch(t) /\ Pairs(t, u)
       /\ Alone(matchingQueue, "match:start_searching", u)
            => /\ ~Gains(activeMatches, activeMatches', u)
               /\ ~Sent(u, "match:found")
       /\ Alone(localMatchingQueue, "local_match:start_searching", u)
            => /\ ~Gains(activeLocalMatches, activeLocalMatches', u)
               /\ ~Sent(u, "local_match:found")
       /\ activeMatches'[u] # u /\ activeLocalMatches'[u] # u]_vars

\* a user has been alone in the global queue while every event the
\* environment had was delivered, and is unmatched
AloneUnmatched ==
  \E u \in Users :
    /\ Alone(matchingQueue, "match:start_searching", u)
    /\ budget = 0 /\ tasks = EmptyBag
    /\ ~MapHas(activeMatches, u) /\ found = <<>>

\* the two conversation rows are of one unordered pair of users
SamePair(c1, c2) ==
  {conversations[c1].user_1_id, conversations[c1].user_2_id}
    = {conversations[c2].user_1_id, conversations[c2].user_2_id}

\* C16 - Conversation reuse: whenever two users are matched again after a
\* skip, by either queue and in either search direction, the match-found
\* events a user is sent for that partner all carry one conversationId, and
\* the pair has a single conversation row.
ConversationReuse ==
  /\ \A a, b \in Users : Cardinality(ConversationRows(a, b)) <= 1
  /\ \A i, j \in 1..Len(found) :
       (found[i].to = found[j].to /\ SamePair(found[i].arg, found[j].arg))
         => found[i].arg = found[j].arg

\* the step is a signaling event of u naming the room
Signals(u, room) ==
  \/ \E offer \in Offers : WebrtcOffer(u, room, offer)
  \/ \E answer \in Answers : WebrtcAnswer(u, room, answer)
  \/ \E candidate \in Candidates : WebrtcIceCandidate(u, room, candidate)
  \/ WebrtcEndCall(u, room)
  \/ \E toggle \in Toggles : WebrtcMediaToggle(u, room, toggle)

\* C17 - Signaling membership: a signaling event naming a room is delivered
\* to a connection only if the sending and the receiving connection are both
\* members of the room; from a non-member it is delivered to nobody.
SignalingMembership ==
  [][\A u \in Users : \A room \in SignalRooms :
       Signals(u, room)
         => /\ room \notin rooms[u] => emitted' = {}
            /\ \A m \in emitted' : room \in rooms[m.to]]_vars

\* C18 - Offer relay: an offer from a connection that is not in the named
\* room is forwarded to nobody; an offer from a member reaches every other
\* connected member of the room, and only them, with the payload the sender
\* gave, and never the sender.
OfferRelay ==
  [][\A u \in Users : \A room \in SignalRooms : \A offer \in Offers :
       WebrtcOffer(u, room, offer)
         => /\ room \notin rooms[u] => emitted' = {}
            /\ room \in rooms[u] =>
                 \A v \in Users :
                   (v # u /\ connected[v] /\ room \in rooms[v])
                     <=> \E m \in emitted' : m.to = v
            /\ \A m \in emitted' :
                 /\ m.to # u /\ m.sock = socketId[m.to]
                 /\ m.ev = "webrtc:offer" /\ m.message = offer /\ m.arg = u]_vars

\* an offer has reached the partner in the room of a match, and an offer of
\* a client outside that room has been dropped
OfferRelayed ==
  /\ \E m \in emitted : m.ev = "webrtc:offer"
  /\ <<"webrtc:offer", MatchRoom(1)>> \in relayed

\* C19 - Answer transition: an answer is forwarded only when an offer has
\* been relayed in that room before (the room is offering); an answer
\* arriving in a room where no call was ever offered is not forwarded.
AnswerTransition ==
  [][\A u \in Users : \A room \in SignalRooms : \A answer \in Answers :
       (WebrtcAnswer(u, room, answer) /\ emitted' # {})
         => <<"webrtc:offer", room>> \in relayed]_vars

\* C20 - ICE relay: an ice-candidate is forwarded only in a room where an
\* offer has been relayed (the room is offering or connected), and
\* forwarding it leaves the rooms and the call untouched.
IceRelay ==
  [][\A u \in Users : \A room \in SignalRooms : \A candidate \in Candidates :
       WebrtcIceCandidate(u, room, candidate)
         => /\ emitted' # {} => <<"webrtc:offer", room>> \in relayed
            /\ UNCHANGED <<rooms, globalState, localState>>]_vars

\* ----------------------------------------------------------------------
\* C21: presence grace window.  A user's status is set to offline, and
\* user-offline is broadcast, only at a moment such that no connection of the
\* user existed during the grace period before it: the user has no live
\* connection then, and no grace timer of the user is still pending (a
\* pending timer was armed by a disconnect less than one grace period ago,
\* so a connection existed inside the window).
PresenceGraceWindow ==
  [][\A t \in StatusInFlight :
       (t.kind = "setOffline" /\ (StatusCached(t) \/ StatusBroadcast(t)))
         => /\ ~stillConnected(t.userId)
            /\ offlineTimers[t.userId] = 0]_vars

\* ----------------------------------------------------------------------
\* C22: presence debounce.  While a user has a live connection no offline
\* flip starts for that user: a grace timer that fires after the user has
\* reconnected starts no setOffline, writes no status and broadcasts nothing.
StartsOffline(u) ==
  CopiesIn(StatusTask("setOffline", u, "query", "offline"), statusTasks')
    > CopiesIn(StatusTask("setOffline", u, "query", "offline"), statusTasks)
PresenceDebounce ==
  [][\A u \in Users :
       stillConnected(u)
         => /\ ~StartsOffline(u)
            /\ OfflineTimeout(u)
                 => /\ status' = status
                    /\ statusTasks' = statusTasks
                    /\ emitted' = {}]_vars
\* user 1 disconnected and reconnected, nothing else happened, the grace
\* timer has fired, and the status was never written since: setOnline of the
\* new socket is still at its UPDATE and no setOffline was started
DebouncedReconnect ==
  /\ budget = MaxEvents - 2
  /\ connected[1] /\ socketId[1] = 2
  /\ offlineTimers[1] = 0
  /\ status[1] = "online"
  /\ StatusInFlight = {StatusTask("setOnline", 1, "query", "online")}

\* ----------------------------------------------------------------------
\* C23: typing timer uniqueness.  In every reachable state at most one typing
\* timer is armed per (conversation, user) pair, whatever the number of the
\* user's connections.
LiveTimers(conversationId, u) ==
  {tab \in Tabs : conversationId \in Armed(u, tab)}
TypingTimerUnique ==
  \A u \in Users : \A conversationId \in TypingIds :
    Cardinality(LiveTimers(conversationId, u)) <= 1

\* ----------------------------------------------------------------------
\* C24: typing stop.  typing:stop for (conversation, user) broadcasts
\* user-stopped to the other members of the room in the same step and leaves
\* no timer of that pair armed, so that no expiry can broadcast user-stopped
\* for the pair before a new typing:start arms one.
TypingStopCancels ==
  [][\A u \in Users : \A tab \in Tabs : \A conversationId \in TypingIds :
       TypingStop(u, tab, conversationId)
         => /\ emitted' = TypingTo(u, tab, conversationId, "typing:user_stopped")
            /\ LiveTimers(conversationId, u)' = {}]_vars

\* ----------------------------------------------------------------------
\* C25: validation failure leaves the state unchanged.  A local start-search
\* of a user who has no row of locations changes neither queue and neither
\* registry, in the step that receives the event and in the step that finds
\* no row, and that step sends 'location required' to the caller.
LocationRequired(t) ==
  Msg(t.userId, t.socket, "error",
      "Please share your location first to use Local Mode", 0)
NoLocationNoChange ==
  [][/\ \A u \in Users : \A preferences \in LocalPrefs :
          (locations[u] = NoLocation /\ LocalStartSearching(u, preferences))
            => UNCHANGED <<globalState, localState>>
     /\ \A t \in InFlight :
          (locations[t.userId] = NoLocation /\ LocalLocation(t))
            => /\ emitted' = {LocationRequired(t)}
               /\ CopiesIn(t, tasks') = CopiesIn(t, tasks) - 1
               /\ UNCHANGED <<globalState, localState>>]_vars
\* user 3, who never stored coordinates and has a match in the global
\* registry, has just been told that a location is required
LocationRefused ==
  /\ locations[3] = NoLocation
  /\ MapHas(activeMatches, 3)
  /\ \E m \in emitted :
       m.to = 3 /\ m.message = "Please share your location first to use Local Mode"

\* ----------------------------------------------------------------------
\* C26: collaborator failure is reported.  Whenever a store or cache call
\* made on behalf of a start-search fails, the step that handles the failure
\* sends an error event to the caller.
ErrorTo(t) == \E m \in emitted' : m.to = t.userId /\ m.sock = t.socket /\ m.ev = "error"
FailureReported ==
  [][\A t \in InFlight :
       (\/ StartSearchingFailed(t) \/ FindMatchFailed(t)
        \/ LocalStartSearchingFailed(t) \/ FindLocalMatchFailed(t))
         => ErrorTo(t)]_vars

\* ----------------------------------------------------------------------
\* C27: re-entrant disconnect cleanup.  User 1, matched with user 2, sends
\* skip, end-session or stop and disconnects, the handlers interleaving at
\* their suspension points: no step sends an error; once user 1 is gone and
\* every handler has returned, the registry has no entry for user 1 or for
\* user 2 and the queue none for user 1; and user 2 is sent a teardown notice
\* only by a step that finds user 2 still registered with user 1, hence at
\* most once for the match.
TeardownNotice(m) ==
  m.to = 2 /\ m.ev \in {"match:partner_skipped", "match:partner_left"}
ReentrantCleanup ==
  [][/\ \A m \in emitted' : m.ev # "error"
     /\ (~connected'[1] /\ tasks' = EmptyBag)
          => /\ activeMatches'[1] = None
             /\ activeMatches'[2] = None
             /\ ~InQueue(matchingQueue', 1)
     /\ (\E m \in emitted' : TeardownNotice(m)) => activeMatches[2] = 1]_vars

\* ----------------------------------------------------------------------
\* C28: match lifetime.  The two entries of a registered pair {A, B} change
\* only in a step of a skip, decline, end-session or disconnect cleanup of A
\* or of B, in the registry's own mode; no other step of any user (a
\* start-search, a stop-searching, an event of a third user) removes or
\* alters them.
PairOf(reg, a, b) == a # b /\ reg[a] = b /\ reg[b] = a
Altered(regAfter, a, b) == regAfter[a] # b \/ regAfter[b] # a
GlobalTeardownBy(u) ==
  \/ \E partnerId \in Users \cup {None} : SkipMatch(u, partnerId)
  \/ DeclineMatch(u)
  \/ EndSession(u)
  \/ \E t \in InFlight : t.userId = u /\ MatchDisconnectCleanup(t)
LocalTeardownBy(u) ==
  \/ LocalSkipMatch(u)
  \/ \E t \in InFlight : t.userId = u /\ LocalDisconnectCleanup(t)
MatchLifetime ==
  [][\A a, b \in Users :
       /\ (PairOf(activeMatches, a, b) /\ Altered(activeMatches', a, b))
            => GlobalTeardownBy(a) \/ GlobalTeardownBy(b)
       /\ (PairOf(activeLocalMatches, a, b) /\ Altered(activeLocalMatches', a, b))
            => LocalTeardownBy(a) \/ LocalTeardownBy(b)]_vars

\* ----------------------------------------------------------------------
\* C29: atomic remove-then-register.  A search that finds its candidate
\* unblocked takes the searcher and the candidate out of the queue and writes
\* both directed registry entries in that one step; and in whatever step a
\* registry gains an entry a -> b, the entry b -> a is there after the same
\* step and the queue has lost a and b.  So no step in between exists in
\* which another handler could see the pair out of the queue and not
\* registered, or half registered.
Registers(reg, regAfter, a) == regAfter[a] # None /\ regAfter[a] # reg[a]
Removed(q, a, b) == removeFromQueue(removeFromQueue(q, a), b)
Stored(t, q, qAfter, regAfter, removeBoth(_, _, _)) ==
  LET candidate == Head(t.compatibleUsers).userId
  IN  /\ qAfter = removeBoth(q, t.userId, candidate)
      /\ regAfter[t.userId] = candidate
      /\ regAfter[candidate] = t.userId
LocalRemoved(q, a, b) == removeFromLocalQueue(removeFromLocalQueue(q, a), b)
AtomicRemoveRegister ==
  [][/\ \A t \in InFlight :
          /\ (StoreMatch(t) /\ BlockRows(t.userId, Head(t.compatibleUsers).userId) = {})
               => Stored(t, matchingQueue, matchingQueue', activeMatches', Removed)
          /\ (StoreLocalMatch(t) /\ BlockRows(t.userId, Head(t.compatibleUsers).userId) = {})
               => Stored(t, localMatchingQueue, localMatchingQueue',
                         activeLocalMatches', LocalRemoved)
     /\ \A a \in Users :
          /\ Registers(activeMatches, activeMatches', a)
               => /\ activeMatches'[activeMatches'[a]] = a
                  /\ matchingQueue' = Removed(matchingQueue, a, activeMatches'[a])
                     \/ matchingQueue' = Removed(matchingQueue, activeMatches'[a], a)
          /\ Registers(activeLocalMatches, activeLocalMatches', a)
               => /\ activeLocalMatches'[activeLocalMatches'[a]] = a
                  /\ localMatchingQueue'
                       = LocalRemoved(localMatchingQueue, a, activeLocalMatches'[a])
                     \/ localMatchingQueue'
                       = LocalRemoved(localMatchingQueue, activeLocalMatches'[a], a)]_vars
\* a global search has just stored its pair: it waits for the conversation
\* rows, both entries are there and neither user is queued
PairJustStored ==
  \E t \in InFlight :
    /\ t.kind = "match:start_searching" /\ t.pc = "conversation"
    /\ activeMatches[t.userId] = Head(t.compatibleUsers).userId
    /\ activeMatches[Head(t.compatibleUsers).userId] = t.userId
    /\ ~InQueue(matchingQueue, t.userId)
    /\ ~InQueue(matchingQueue, Head(t.compatibleUsers).userId)

\* ----------------------------------------------------------------------
\* C30: compatibility of every match.  Whenever a search of either mode
\* records a pair in the registry, the searcher and the candidate are
\* distinct users, the modes they asked for are equal, each one's gender
\* preference is 'all' or the other's gender, and each one's age lies in the
\* other's age range, bounds included (the searcher's preferences are the
\* event's, the candidate's those of the queue entry the search selected).
GenderAccepts(preferences, other) ==
  preferences.genderPreference \in {"all", Gender(other)}
AgeAccepts(preferences, other) ==
  preferences.ageRange[1] <= Age(other) /\ Age(other) <= preferences.ageRange[2]
CompatiblePair(t) ==
  LET matchedQueued == Head(t.compatibleUsers)
  IN  /\ t.userId # matchedQueued.userId
      /\ t.preferences.mode = matchedQueued.preferences.mode
      /\ GenderAccepts(t.preferences, matchedQueued.userId)
      /\ GenderAccepts(matchedQueued.preferences, t.userId)
      /\ AgeAccepts(t.preferences, matchedQueued.userId)
      /\ AgeAccepts(matchedQueued.preferences, t.userId)
MatchCompatibility ==
  [][\A t \in InFlight :
       ((StoreMatch(t) \/ StoreLocalMatch(t))
        /\ BlockRows(t.userId, Head(t.compatibleUsers).userId) = {})
         => CompatiblePair(t)]_vars
\* a search whose client asked for women of 22 to 26 has stored its pair
\* (user 1, whose age is the lower bound)
SelectiveMatchStored ==
  \E t \in InFlight :
    /\ t.kind = "match:start_searching" /\ t.pc = "conversation"
    /\ t.preferences.genderPreference = "female"
    /\ activeMatches[t.userId] = Head(t.compatibleUsers).userId
    /\ activeMatches[Head(t.compatibleUsers).userId] = t.userId

\* ----------------------------------------------------------------------
\* C31: block exclusion.  A search that, when the block rows of the pair
\* (searcher, candidate) arrive, finds that either has blocked the other
\* records no pair: queue and registry stay as they are, the candidate's
\* entry with them, and the walk goes on with the next candidate of its list
\* (or ends when there is none).  So a registry entry for a pair is written
\* only by a step that found neither direction blocked.
Blocked(a, b) == <<a, b>> \in blocks \/ <<b, a>> \in blocks
WalksOn(t) ==
  LET rest == Tail(t.compatibleUsers)
  IN  tasks' = IF rest = <<>>
               THEN tasks (-) SetToBag({t})
               ELSE (tasks (-) SetToBag({t}))
                      (+) SetToBag({[t EXCEPT !.compatibleUsers = rest,
                                              !.pc = "candidate"]})
BlockExclusion ==
  [][\A t \in InFlight :
       /\ (StoreMatch(t) /\ Blocked(t.userId, Head(t.compatibleUsers).userId))
            => UNCHANGED globalState /\ WalksOn(t)
       /\ (StoreLocalMatch(t) /\ Blocked(t.userId, Head(t.compatibleUsers).userId))
            => UNCHANGED localState /\ WalksOn(t)]_vars
\* user 1, who blocked user 2, searches while users 2 and 3 are queued in
\* that order: the search has passed over user 2, whose entry is still in
\* the queue, and waits for the profile of user 3
BlockedPassedOver ==
  \E t \in InFlight :
    /\ t.kind = "match:start_searching" /\ t.userId = 1 /\ t.pc = "candidate"
    /\ Len(t.compatibleUsers) = 1 /\ Head(t.compatibleUsers).userId = 3
    /\ <<1, 2>> \in blocks
    /\ InQueue(matchingQueue, 2)
    /\ FindIndex(matchingQueue, 2) < FindIndex(matchingQueue, 3)

\* ----------------------------------------------------------------------
\* C32: nearest first in the geo queue.  When a local search stores a pair,
\* the partner's entry is one of the queue entries that pass the filter
\* (another user, not in the registry, the searcher's mode, within both
\* radii) and every per-candidate check (profile there, gender and age in
\* both directions, no block), and none of those entries is nearer to the
\* searcher than the partner's.
PassesFilter(t, reg, queued) ==
  /\ queued.userId # t.userId
  /\ ~MapHas(reg, queued.userId)
  /\ queued.preferences.mode = t.preferences.mode
PassesChecks(t, queued) ==
  /\ queued.userId \notin deleted
  /\ GenderAccepts(t.preferences, queued.userId)
  /\ GenderAccepts(queued.preferences, t.userId)
  /\ AgeAccepts(t.preferences, queued.userId)
  /\ AgeAccepts(queued.preferences, t.userId)
  /\ ~Blocked(t.userId, queued.userId)
LocalPassing(t) ==
  {i \in 1..Len(localMatchingQueue) :
     /\ PassesFilter(t, activeLocalMatches, localMatchingQueue[i])
     /\ InRange(t, localMatchingQueue[i])
     /\ PassesChecks(t, localMatchingQueue[i])}
StoresLocalPair(t) ==
  StoreLocalMatch(t) /\ ~Blocked(t.userId, Head(t.compatibleUsers).userId)
NearestFirst ==
  [][\A t \in InFlight :
       StoresLocalPair(t)
         => \A i \in LocalPassing(t) :
              EntryDistance(t, Head(t.compatibleUsers))
                <= EntryDistance(t, localMatchingQueue[i])]_vars

\* ----------------------------------------------------------------------
\* C33: arrival order in the global queue.  When a global search stores a
\* pair with a partner who has a queue entry, no queue entry that passes the
\* filter (another user, not in the registry, the searcher's mode) and every
\* per-candidate check (profile there, gender and age in both directions, no
\* block) stands ahead of the partner's entry: no later arrival is selected
\* ahead of an earlier one that passes.
GlobalPassing(t) ==
  {i \in 1..Len(matchingQueue) :
     /\ PassesFilter(t, activeMatches, matchingQueue[i])
     /\ PassesChecks(t, matchingQueue[i])}
StoresPair(t) ==
  StoreMatch(t) /\ ~Blocked(t.userId, Head(t.compatibleUsers).userId)
ArrivalOrder ==
  [][\A t \in InFlight :
       (StoresPair(t) /\ InQueue(matchingQueue, Head(t.compatibleUsers).userId))
         => \A i \in GlobalPassing(t) :
              FindIndex(matchingQueue, Head(t.compatibleUsers).userId) + 1 <= i]_vars

\* ----------------------------------------------------------------------
\* C34: vanished profiles are purged.  When a search finds no live profile
\* for a candidate, the step takes one entry of that candidate out of the
\* queue (if it still has one) and leaves the entries of everybody else in
\* their order, writes nothing to the registry, and goes on with the next
\* candidate of its list; when a start-search finds no live profile for its
\* own user, the step sends 'User not found' to the caller, ends the handler
\* and leaves the queue as it is.
Others(q, u) == SelectSeq(q, LAMBDA queued : queued.userId # u)
Less(n) == IF n > 0 THEN n - 1 ELSE 0
Purged(q, qAfter, u) ==
  /\ Cardinality(EntriesOf(qAfter, u)) = Less(Cardinality(EntriesOf(q, u)))
  /\ Others(qAfter, u) = Others(q, u)
UserNotFound(t) == Msg(t.userId, t.socket, "error", "User not found", 0)
Vanished(t) == Head(t.compatibleUsers).userId \in deleted
VanishedPurged ==
  [][\A t \in InFlight :
       /\ (CheckCandidate(t) /\ Vanished(t))
            => /\ Purged(matchingQueue, matchingQueue', Head(t.compatibleUsers).userId)
               /\ UNCHANGED <<activeMatches, localState>>
               /\ WalksOn(t)
       /\ (CheckLocalCandidate(t) /\ Vanished(t))
            => /\ Purged(localMatchingQueue, localMatchingQueue',
                         Head(t.compatibleUsers).userId)
               /\ UNCHANGED <<activeLocalMatches, globalState>>
               /\ WalksOn(t)
       /\ ((QueueUser(t) \/ LocalQueueUser(t)) /\ t.userId \in deleted)
            => /\ emitted' = {UserNotFound(t)}
               /\ tasks' = tasks (-) SetToBag({t})
               /\ UNCHANGED <<globalState, localState>>]_vars
\* a deleted user who was queued (a search in flight still lists the entry)
\* has no entry any more and was never matched: another search has purged it
VanishedEntryGone ==
  \E t \in InFlight : \E i \in 1..Len(t.compatibleUsers) :
    LET gone == t.compatibleUsers[i].userId
    IN  /\ t.kind = "match:start_searching"
        /\ gone \in deleted
        /\ ~InQueue(matchingQueue, gone)
        /\ \A u \in Users : activeMatches[u] # gone
        /\ ~MapHas(activeMatches, gone)

\* ----------------------------------------------------------------------
\* C35: typing auto-expiry and cleanup.  A timer that expires is the one the
\* most recent typing:start of its (conversation, user) pair armed, so no
\* later timer of the pair is still running then (a running timer was armed
\* less than the quiet period ago), and its connection is live.  When a
\* connection closes, user-stopped is broadcast for exactly the (conversation,
\* user) pairs that connection had a timer armed for, to the room of that
\* conversation, and no timer of the connection remains armed.
StoppedFor(u, tab, conversationId) ==
  {Msg(v, socketId[v], "typing:user_stopped", conversationId, u) :
     v \in Members(TypingRoom(conversationId)) \ (IF tab = 1 THEN {u} ELSE {})}
Closes(u, tab) == IF tab = 1 THEN Disconnect(u) ELSE SecondDisconnect(u)
TypingExpiryCleanup ==
  [][\A u \in Users : \A tab \in Tabs :
       /\ \A conversationId \in TypingIds :
            TypingExpire(u, tab, conversationId)
              => /\ LiveTimers(conversationId, u) = {tab}
                 /\ Open(u, tab)
       /\ Closes(u, tab)
            => /\ emitted' = UNION {StoppedFor(u, tab, c) : c \in Armed(u, tab)}
               /\ Armed(u, tab)' = {}]_vars

\* ----------------------------------------------------------------------
\* C36: one active conversation per pair.  In every reachable state the
\* conversation store holds at most one active row for any unordered pair of
\* users, also when the start-search handlers of two users select each other
\* at the same time.
OneConversationPerPair ==
  \A a \in Users : \A b \in Users \ {a} :
    Cardinality(ConversationRows(a, b)) <= 1

\* ----------------------------------------------------------------------
\* C37: registered pairs are announced.  Whenever a search that has written
\* its pair into the registry ends, normally or through its error path, the
\* step that ends it emits a match-found event to the searcher and, if the
\* partner is connected, to the partner.
Registered == {"conversation", "insert", "matchcache"}
Ends(t) == tasks' = tasks (-) SetToBag({t})
FoundEvent(t) ==
  IF t.kind = "match:start_searching" THEN "match:found" ELSE "local_match:found"
AnnouncedTo(u, ev) == \E m \in emitted' : m.to = u /\ m.ev = ev
RegisteredAnnounced ==
  [][\A t \in InFlight :
       ( /\ t.kind \in {"match:start_searching", "local_match:start_searching"}
         /\ t.pc \in Registered
         /\ Ends(t) )
       => /\ AnnouncedTo(t.userId, FoundEvent(t))
          /\ connected[Head(t.compatibleUsers).userId]
             => AnnouncedTo(Head(t.compatibleUsers).userId, FoundEvent(t))]_vars

\* ----------------------------------------------------------------------
\* C38: signaling stops with the match.  A signaling event that a user sends
\* for the room of the match reaches a connection of the other user only
\* while the two are registered as matched with each other.
SignalingEvents ==
  {"webrtc:offer", "webrtc:answer", "webrtc:ice-candidate",
   "webrtc:call-ended", "webrtc:media-toggle"}
SignalingStopsWithMatch ==
  \A m \in emitted :
    m.ev \in SignalingEvents => activeMatches[m.arg] = m.to

\* ----------------------------------------------------------------------
\* C39: offline is never announced for a connected user.  At the step in
\* which setOffline writes the status 'offline' of a user, and at the step in
\* which it broadcasts status:user_offline for the user, the user has no live
\* connection, also when the user reconnected while setOffline was suspended.
WritesOffline(t) == t.kind = "setOffline" /\ StatusCached(t)
AnnouncesOffline(t) == t.kind = "setOffline" /\ StatusBroadcast(t)
OfflineOnlyDisconnected ==
  [][\A t \in StatusInFlight :
       (WritesOffline(t) \/ AnnouncesOffline(t))
         => ~stillConnected(t.userId)]_vars

\* ----------------------------------------------------------------------
\* C40: nearby-subscription timer hygiene.  A connection has at most one
\* nearby-users interval armed, and a connection that holds no subscription
\* (none was made yet, or unsubscribe or disconnect was handled since the
\* last one) has none armed.
OneInterval(c) == Cardinality(ArmedIntervals(c)) <= 1
NoneAfterCleanup(c) == nearbySubscription[c] = None => ArmedIntervals(c) = {}
NearbyTimerHygiene ==
  \A c \in Connections : OneInterval(c) /\ NoneAfterCleanup(c)

====
